---- MODULE Spec2Model ----
(***************************************************************************)
(* A model of the etl0 streaming core:                                     *)
(*   - the tar writer (src/etl0/src/tar): TarStream and its six states,    *)
(*     the header writer TarHeader::write, and the request body TarBody    *)
(*     that wraps the stream (src/etl0/src/docker/tar.rs),                 *)
(*   - the framing decoder scaffold DockerStream with the log codec        *)
(*     (src/etl0/src/docker/stream),                                       *)
(*   - the per-request connection, the response envelope and the typed     *)
(*     client (src/etl0/src/docker/http.rs, client.rs),                    *)
(*   - the log codec and the image-pull codec run on a buffer of their     *)
(*     own, append after append (src/etl0/src/docker/stream/mod.rs),       *)
(*   - the buffer DockerStreamBuffer and the classification of image-pull  *)
(*     records, each under any sequence of calls.                          *)
(* Each part has its own specification over the variables it owns; the     *)
(* other variables stay at their initial value:                            *)
(*   TarSpec, BodySpec        the tar stream; the stream inside TarBody    *)
(*   GrownSpec                the tar stream over files that hold more     *)
(*                            bytes than the archive was told              *)
(*   HeaderSpec               TarHeader::write, call by call               *)
(*   StreamSpec, SentSpec     DockerStream on any body; on a body that     *)
(*                            remembers the records it was encoded from    *)
(*   PolledSpec               DockerStream polled until the body ends      *)
(*   PullSpec                 DockerStream with the image-pull codec       *)
(*   ClientSpec               one endpoint call of DockerClient            *)
(*   CodecSpec                a codec's extract after each append          *)
(*   BufferSpec               DockerStreamBuffer::append and consume       *)
(*   ClassifySpec             ImageCreateStreamLine::from                  *)
(***************************************************************************)
EXTENDS Integers, Sequences, FiniteSets, TLC

VARIABLES
    \* ---- tar writer (TarStream, tar/stream.rs:13-17) ----
    archive,        \* TarArchive.entries: the plan the stream was made from
    requested,      \* the buffer_size argument given to TarStream::new
    buffer_size,    \* TarStream.buffer_size
    entries,        \* TarStream.entries (VecDeque<TarEntry>)
    state,          \* TarStream.state (TarState and the data its variant owns)
    out,            \* what the last iteration of poll_next's loop produced
    emitted,        \* the items poll_next has yielded so far, summarised
    frame,          \* what TarBody::poll_frame last returned (docker/tar.rs)
    \* ---- decoder stream (DockerStream, docker/stream/common.rs:58-69) ----
    body,           \* the HTTP body still to come (Incoming), front first
    buffer,         \* DockerStream.buffer: Option<DockerStreamBuffer>
    prefetched,     \* DockerStream.prefetched
    connection,     \* the driver JoinHandle as seen by the stream
    sout,           \* what the last iteration of poll_next's loop produced
    delivered,      \* the items poll_next has yielded so far
    \* ---- typed client call (DockerClient, docker/client.rs) ----
    call,           \* one endpoint call: its position and what it holds
    \* ---- a component run on its own ----
    codec           \* which one (handler) and its data: a codec with the
                    \* buffer it is run on and what it returned; the buffer
                    \* alone ("buffer"); a record being classified ("lines");
                    \* a header being written ("header"); the items the
                    \* image-pull codec returned inside a stream ("image")

tarVars == <<archive, requested, buffer_size, entries, state, out, emitted, frame>>
streamVars == <<body, buffer, prefetched, connection, sout, delivered>>
clientVars == <<call>>
codecVars == <<codec>>
vars == <<archive, requested, buffer_size, entries, state, out, emitted, frame,
          body, buffer, prefetched, connection, sout, delivered, call, codec>>

Min(a, b) == IF a < b THEN a ELSE b
Max(a, b) == IF a > b THEN a ELSE b

(***************************************************************************)
(*                              TAR WRITER                                 *)
(***************************************************************************)

\* The tar block size: every literal 512 of tar/state.rs and tar/core.rs.
Page == 512

\* ---- bounds and inputs of the tar model ----
MaxEntries == 2
MaxEmitted == 12

\* The files on disk: `len` is the length the metadata reports, `actual`
\* the number of bytes the file yields when read.  A file is stable when
\* both agree; the last one ends before its reported length.
Files == {[len |-> 0, actual |-> 0], [len |-> 1, actual |-> 1],
          [len |-> 512, actual |-> 512], [len |-> 513, actual |-> 513],
          [len |-> 1025, actual |-> 1025], [len |-> 1536, actual |-> 1536],
          [len |-> 512, actual |-> 200]}

\* Buffer sizes a caller may ask for.
RequestedSizes == {100, 512, 1100}

\* Byte counts a single read may report besides "as much as fits".
ShortReads == {200, 512}

\* The byte at position pos (0-based) of the file with the given path:
\* never zero, so that file content and zero padding can be told apart.
FileByte(path, pos) == ((pos * 7 + path) % 255) + 1

RECURSIVE EntryLists(_)
EntryLists(n) ==
    IF n = 0 THEN {<< >>}
    ELSE LET shorter == EntryLists(n - 1)
         IN shorter \cup {Append(s, f) : s \in {t \in shorter : Len(t) = n - 1}, f \in Files}

\* TarArchive::append_file / into_stream: the plan, each entry with its path.
Archives == {[i \in 1..Len(s) |-> [path |-> i, len |-> s[i].len, actual |-> s[i].actual]] :
                s \in EntryLists(MaxEntries)}

\* ---- TarChunk (tar/core.rs) ----
\* A data chunk is a Vec<u8> of `len` bytes.  Its content is kept as the
\* byte every position was allocated with (`init`) and the file segments
\* written over it since: `writes` lists them in buffer order, each with
\* the buffer index it starts at (0-based), its length, and the file and
\* file position the bytes came from.  DataByte reads the buffer back.
ChunkHeader(path, len) == [kind |-> "Header", path |-> path, size |-> len]
ChunkPadding(index) == [kind |-> "Padding", index |-> index]
ChunkData(pages) == [kind |-> "Data", len |-> pages * Page, init |-> 0, writes |-> << >>]

ChunkLen(chunk) ==
    CASE chunk.kind = "Header" -> Page
      [] chunk.kind = "Padding" -> Page
      [] chunk.kind = "Data" -> chunk.len
      [] OTHER -> 0

\* TarChunk::offset on a data chunk: the writable tail, or MemoryAccess.
ChunkOffsetOk(chunk, value) == value <= ChunkLen(chunk)

\* The byte at index i (0-based) of a data chunk.
DataByte(chunk, i) ==
    LET hits == {k \in 1..Len(chunk.writes) :
                    /\ chunk.writes[k].at <= i
                    /\ i < chunk.writes[k].at + chunk.writes[k].count}
    IN IF hits = {} THEN chunk.init
       ELSE LET w == chunk.writes[CHOOSE k \in hits : \A j \in hits : j <= k]
            IN FileByte(w.path, w.pos + (i - w.at))

\* Copying `count` bytes of a file, from position pos on, to index `at`.
ChunkWrite(chunk, at, count, path, pos) ==
    LET n == Len(chunk.writes)
        joins == /\ n > 0
                 /\ chunk.writes[n].path = path
                 /\ chunk.writes[n].at + chunk.writes[n].count = at
                 /\ chunk.writes[n].pos + chunk.writes[n].count = pos
    IN IF count = 0 THEN chunk
       ELSE IF joins
       THEN [chunk EXCEPT !.writes[n].count = @ + count]
       ELSE [chunk EXCEPT !.writes =
                Append(@, [at |-> at, count |-> count, path |-> path, pos |-> pos])]

\* ---- TarHeader (tar/header.rs) ----
\* TarHeader::empty: Box::new([0; 512])
HeaderEmpty == [i \in 1..Page |-> 0]

\* The ASCII digits of a number in base 8, most significant first.
RECURSIVE OctalDigits(_)
OctalDigits(value) ==
    IF value < 8 THEN <<48 + value>>
    ELSE Append(OctalDigits(value \div 8), 48 + (value % 8))

\* format!("{:011o}", value): at least 11 digits, zero-padded on the left
FormatOctal(value) ==
    LET digits == OctalDigits(value)
    IN [i \in 1..Max(0, 11 - Len(digits)) |-> 48] \o digits

\* TarHeader::write_bytes: `length` bytes at `offset` (0-based) become the
\* given bytes, cut or filled up with NUL to that length.
WriteBytes(header, offset, length, bytes) ==
    SubSeq(header, 1, offset)
        \o [i \in 1..length |-> IF i <= Len(bytes) THEN bytes[i] ELSE 0]
        \o SubSeq(header, offset + length + 1, Len(header))

\* TarHeader::write_octal: the last length - 1 characters of the formatted
\* value, right-aligned and filled up with '0', then NUL.
WriteOctal(header, offset, length, value) ==
    LET text == FormatOctal(value)
        digit(i) == IF Len(text) - i >= 1 THEN text[Len(text) - i] ELSE 48
    IN SubSeq(header, 1, offset)
           \o [k \in 1..(length - 1) |-> digit(length - 1 - k)]
           \o <<0>>
           \o SubSeq(header, offset + length + 1, Len(header))

RECURSIVE SumBytes(_, _, _)
SumBytes(header, from, to) ==
    IF from > to THEN 0
    ELSE IF from = to THEN header[from]
    ELSE LET mid == (from + to) \div 2
         IN SumBytes(header, from, mid) + SumBytes(header, mid + 1, to)

\* Mutant of CalculateChecksum: the checksum field itself is left out of
\* the sum.
CalculateChecksumSkipsField(header) ==
    SumBytes(header, 1, 148) + SumBytes(header, 157, Len(header))

\* TarHeader::calculate_checksum: the sum of all bytes, each as a u32 (512
\* bytes sum to 130560 at most, far from the u32's end)
CalculateChecksum(header) == SumBytes(header, 1, Len(header))

Spaces == [i \in 1..8 |-> 32]

\* "ustar  \0"
Magic == <<117, 115, 116, 97, 114, 32, 32, 0>>

\* The calls TarHeader::write makes, in its order; write_chksum is two
\* calls, write_bytes with spaces and write_octal with the sum.
HeaderCalls == <<"name", "mode", "uid", "gid", "size", "mtime", "magic",
                 "type_flag", "chksum_spaces", "chksum_octal">>

\* The header after one of those calls, for a file with this metadata.
HeaderCall(header, name, meta) ==
    CASE name = "name" -> WriteBytes(header, 0, 99, meta.path)
      [] name = "mode" -> WriteOctal(header, 100, 8, meta.mode % 512)
      [] name = "uid" -> WriteOctal(header, 108, 8, 0)
      [] name = "gid" -> WriteOctal(header, 116, 8, 0)
      [] name = "size" -> WriteOctal(header, 124, 12, meta.size)
      [] name = "mtime" -> WriteOctal(header, 136, 12, meta.mtime)
      [] name = "magic" -> WriteBytes(header, 257, 8, Magic)
      [] name = "type_flag" -> WriteBytes(header, 156, 1, <<48>>)
      [] name = "chksum_spaces" -> WriteBytes(header, 148, 8, Spaces)
      [] OTHER -> WriteOctal(header, 148, 8, CalculateChecksum(header))

\* TarHeader::write: the header after the first n calls
RECURSIVE HeaderAfter(_, _)
HeaderAfter(meta, n) ==
    IF n = 0 THEN HeaderEmpty
    ELSE HeaderCall(HeaderAfter(meta, n - 1), HeaderCalls[n], meta)

HeaderWrite(meta) == HeaderAfter(meta, Len(HeaderCalls))

\* ---- TarState (tar/state.rs) ----
NoFile == [path |-> 0, len |-> 0, actual |-> 0]

StateInit == [tag |-> "Init"]
StateCompleted == [tag |-> "Completed"]
StatePadding(index) == [tag |-> "Padding", index |-> index]
StateOpen(entry) == [tag |-> "Open", file |-> entry]
StateHeader(entry) == [tag |-> "Header", file |-> entry]

ReadPagesNew(bufsize, length) ==
    Min(bufsize \div Page, length \div Page) + (IF length > 0 THEN 1 ELSE 0)

\* `left` is a usize.  A value the subtraction in advance wrapped around
\* to, 2^64 - d, is kept as -d: it is congruent to it modulo 512, and its
\* page count 2^55 - ceil(d / 512) is above every buffer's.
ReadPagesNext(bufsize, left) ==
    (IF left < 0 THEN bufsize \div Page ELSE Min(bufsize \div Page, left \div Page))
        + (IF left % Page > 0 THEN 1 ELSE 0)

StateReadNew(bufsize, file, length) ==
    [tag |-> "Read", file |-> file, left |-> length, completed |-> 0,
     chunk |-> ChunkData(ReadPagesNew(bufsize, length)), offset |-> 0]

StateReadAdvance(s, bytes, chunk) ==
    [s EXCEPT !.left = s.left - bytes, !.completed = s.completed + bytes,
              !.offset = s.offset + bytes, !.chunk = chunk]

\* Mutant of StateReadNext: the next chunk is taken to hold already as many
\* bytes as the chunk just yielded.
StateReadNextKeepsOffset(bufsize, s) ==
    [s EXCEPT !.chunk = ChunkData(ReadPagesNext(bufsize, s.left))]

StateReadNext(bufsize, s) ==
    [s EXCEPT !.chunk = ChunkData(ReadPagesNext(bufsize, s.left)), !.offset = 0]

\* ---- results of one iteration of poll_next's loop ----
OutNone == [kind |-> "none"]
OutLooping == [kind |-> "looping"]
OutPending == [kind |-> "pending"]
OutEnd == [kind |-> "end"]
OutError(what) == [kind |-> "error", error |-> what]
OutChunk(chunk) == [kind |-> "chunk", chunk |-> chunk]

\* The summary kept of a yielded item: its kind and length and, for a data
\* chunk, the file it belongs to, the file position of its first byte, the
\* number of bytes read into it, and whether the file was exhausted (left = 0)
\* when it was yielded; for a padding chunk `fill` holds its index.
Item(kind, len, file, start, fill, last) ==
    [kind |-> kind, len |-> len, file |-> file, start |-> start, fill |-> fill, last |-> last]

\* Mutant of Failed: the error is yielded but the stream goes on with the
\* next entry instead of completing.
FailedKeepsGoing(what) ==
    /\ state' = StateInit
    /\ out' = OutError(what)
    /\ emitted' = Append(emitted, Item("Error", 0, NoFile, 0, 0, FALSE))

\* TarState::failed
Failed(what) ==
    /\ state' = StateCompleted
    /\ out' = OutError(what)
    /\ emitted' = Append(emitted, Item("Error", 0, NoFile, 0, 0, FALSE))

\* Mutant of Pending: the stream forgets the entry it was working on and
\* asks for the next one.
PendingForgets(s) ==
    /\ state' = StateInit
    /\ out' = OutPending
    /\ emitted' = emitted

\* TarState::pending
Pending(s) ==
    /\ state' = s
    /\ out' = OutPending
    /\ emitted' = emitted

\* TarBody::poll_frame has returned nothing yet.  `of` is the poll result
\* the last return was made from, `at` the number of items the stream had
\* yielded by then, `ret` what was returned, `sent` the number of data
\* frames returned so far.
NoFrame == [of |-> OutNone, at |-> 0, ret |-> [kind |-> "none"], sent |-> 0]

\* The decoder stream, the client and the codec harness, not in use.
StreamIdle ==
    /\ body = << >>
    /\ buffer = << >>
    /\ prefetched = << >>
    /\ connection = "none"
    /\ sout = OutNone
    /\ delivered = << >>

ClientIdle == call = [pc |-> "idle"]

CodecIdle == codec = [handler |-> "none"]

\* TarStream::new
TarInit ==
    /\ requested \in RequestedSizes
    /\ buffer_size = (requested \div Page) * Page
    /\ archive \in Archives
    /\ entries = archive
    /\ state = StateInit
    /\ out = OutNone
    /\ emitted = << >>
    /\ frame = NoFrame
    /\ StreamIdle
    /\ ClientIdle
    /\ CodecIdle

\* Mutant of PollInit: the entry popped is the queue's last, not its first.
PollInitLast ==
    /\ state.tag = "Init"
    /\ Len(emitted) < MaxEmitted
    /\ IF entries = << >>
       THEN /\ state' = StatePadding(0)
            /\ entries' = entries
       ELSE /\ state' = StateOpen(entries[Len(entries)])
            /\ entries' = SubSeq(entries, 1, Len(entries) - 1)
    /\ out' = OutLooping
    /\ UNCHANGED <<archive, requested, buffer_size, emitted, frame, streamVars, clientVars, codecVars>>

\* TarStateInit::poll and the NextEntry arm of poll_next
PollInit ==
    /\ state.tag = "Init"
    /\ Len(emitted) < MaxEmitted
    /\ IF entries = << >>
       THEN /\ state' = StatePadding(0)
            /\ entries' = entries
       ELSE /\ state' = StateOpen(Head(entries))
            /\ entries' = Tail(entries)
    /\ out' = OutLooping
    /\ UNCHANGED <<archive, requested, buffer_size, emitted, frame, streamVars, clientVars, codecVars>>

\* TarStateHeader::poll: metadata pending, failed, or the header chunk
HeaderPoll(file, result) ==
    CASE result = "pending" -> Pending(StateHeader(file))
      [] result = "error" -> Failed("IOFailed")
      [] OTHER ->
            /\ state' = StateReadNew(buffer_size, file, file.len)
            /\ out' = OutChunk(ChunkHeader(file.path, file.len))
            /\ emitted' = Append(emitted, Item("Header", Page, file, 0, 0, FALSE))

\* TarStateOpen::poll: open pending, failed, or straight on to the header
PollOpen ==
    /\ state.tag = "Open"
    /\ Len(emitted) < MaxEmitted
    /\ \E opened \in {"pending", "error", "ok"} :
          CASE opened = "pending" -> Pending(state)
            [] opened = "error" -> Failed("IOFailed")
            [] OTHER -> \E result \in {"pending", "error", "ok"} :
                            HeaderPoll(state.file, result)
    /\ UNCHANGED <<archive, requested, buffer_size, entries, frame, streamVars, clientVars, codecVars>>

PollHeader ==
    /\ state.tag = "Header"
    /\ Len(emitted) < MaxEmitted
    /\ \E result \in {"pending", "error", "ok"} : HeaderPoll(state.file, result)
    /\ UNCHANGED <<archive, requested, buffer_size, entries, frame, streamVars, clientVars, codecVars>>

\* What one read into `space` bytes may report when the file still holds
\* `avail` bytes: zero only at end of file or into an empty buffer.
ReadCounts(space, avail) ==
    LET most == Min(space, avail)
    IN IF most = 0 THEN {0} ELSE {most} \cup {k \in ShortReads : k < most}

\* Mutant of Filled: every read lands at the start of the chunk.
FilledAtStart(s, bytes) ==
    ChunkWrite(s.chunk, 0, bytes, s.file.path, s.completed)

\* The chunk after `bytes` file bytes were read into it at s.offset.
Filled(s, bytes) ==
    ChunkWrite(s.chunk, s.offset, bytes, s.file.path, s.completed)

\* `self.left - bytes` for bytes > left: the build with overflow checks
\* panics in advance, and poll_next unwinds with the Completed state it had
\* swapped in; the build without them wraps around and goes on.
Underflow(bytes) ==
    /\ state.left >= 0
    /\ bytes > state.left
    /\ state' = StateCompleted
    /\ out' = [kind |-> "panic"]
    /\ emitted' = emitted

\* TarStateRead::poll, the part after a read reported `bytes`
ReadDone(bytes) ==
    LET advanced == StateReadAdvance(state, bytes, Filled(state, bytes))
    IN \/ Underflow(bytes)
       \/ CASE advanced.left = 0 ->
                 /\ state' = StateInit
                 /\ out' = OutChunk(advanced.chunk)
                 /\ emitted' = Append(emitted,
                       Item("Data", ChunkLen(advanced.chunk), advanced.file,
                            advanced.completed - advanced.offset, advanced.offset, TRUE))
            [] advanced.left # 0 /\ advanced.offset = ChunkLen(advanced.chunk) ->
                 /\ state' = StateReadNext(buffer_size, advanced)
                 /\ out' = OutChunk(advanced.chunk)
                 /\ emitted' = Append(emitted,
                       Item("Data", ChunkLen(advanced.chunk), advanced.file,
                            advanced.completed - advanced.offset, advanced.offset, FALSE))
            [] OTHER ->
                 /\ state' = advanced
                 /\ out' = OutLooping
                 /\ emitted' = emitted

PollRead ==
    /\ state.tag = "Read"
    /\ Len(emitted) < MaxEmitted
    /\ IF ~ChunkOffsetOk(state.chunk, state.offset)
       THEN Failed("MemoryAccess")
       ELSE \E result \in {"pending", "error", "ok"} :
               CASE result = "pending" -> Pending(state)
                 [] result = "error" -> Failed("IOFailed")
                 [] OTHER ->
                      \E bytes \in ReadCounts(ChunkLen(state.chunk) - state.offset,
                                              Max(0, state.file.actual - state.completed)) :
                          ReadDone(bytes)
    /\ UNCHANGED <<archive, requested, buffer_size, entries, frame, streamVars, clientVars, codecVars>>

\* Mutant of PollPadding: one padding block too many (index <= 2).
PollPaddingThree ==
    /\ state.tag = "Padding"
    /\ Len(emitted) < MaxEmitted
    /\ IF state.index <= 2
       THEN /\ state' = StatePadding(state.index + 1)
            /\ out' = OutChunk(ChunkPadding(state.index))
            /\ emitted' = Append(emitted, Item("Padding", Page, NoFile, 0, state.index, FALSE))
       ELSE /\ state' = StateCompleted
            /\ out' = OutEnd
            /\ emitted' = emitted
    /\ UNCHANGED <<archive, requested, buffer_size, entries, frame, streamVars, clientVars, codecVars>>

\* TarStatePadding::poll
PollPadding ==
    /\ state.tag = "Padding"
    /\ Len(emitted) < MaxEmitted
    /\ IF state.index <= 1
       THEN /\ state' = StatePadding(state.index + 1)
            /\ out' = OutChunk(ChunkPadding(state.index))
            /\ emitted' = Append(emitted, Item("Padding", Page, NoFile, 0, state.index, FALSE))
       ELSE /\ state' = StateCompleted
            /\ out' = OutEnd
            /\ emitted' = emitted
    /\ UNCHANGED <<archive, requested, buffer_size, entries, frame, streamVars, clientVars, codecVars>>

\* Mutant of PollCompleted: a completed stream asks for the next entry.
PollCompletedRestarts ==
    /\ state.tag = "Completed"
    /\ state' = StateInit
    /\ out' = OutLooping
    /\ UNCHANGED <<archive, requested, buffer_size, entries, emitted, frame, streamVars, clientVars, codecVars>>

\* TarStateCompleted::poll
PollCompleted ==
    /\ state.tag = "Completed"
    /\ state' = StateCompleted
    /\ out' = OutEnd
    /\ UNCHANGED <<archive, requested, buffer_size, entries, emitted, frame, streamVars, clientVars, codecVars>>

Zeros(n) == [i \in 1..n |-> 0]

\* The metadata of the file a header chunk was made for: the files of the
\* plan are named "a", "b", ... and are regular files with mode 0644.
FileName(path) == <<96 + path>>
HeaderMeta(chunk) ==
    [path |-> FileName(chunk.path), mode |-> 33188, size |-> chunk.size, mtime |-> 1700000000]

\* Into<Vec<u8>> for TarChunk: a header chunk is the 512 bytes
\* TarHeader::write produced, a padding chunk 512 zeros, a data chunk its
\* buffer.
ChunkBytes(chunk) ==
    CASE chunk.kind = "Header" -> HeaderWrite(HeaderMeta(chunk))
      [] chunk.kind = "Padding" -> Zeros(Page)
      [] chunk.kind = "Data" -> [i \in 1..chunk.len |-> DataByte(chunk, i - 1)]

TarNext ==
    \/ PollInit
    \/ PollOpen
    \/ PollHeader
    \/ PollRead
    \/ PollPadding
    \/ PollCompleted

TarSpec == TarInit /\ [][TarNext]_vars

\* Files that were appended to after their metadata was taken: they yield
\* more bytes than the length the header was written for.
GrownFiles == {[len |-> 1, actual |-> 600], [len |-> 512, actual |-> 513],
               [len |-> 1025, actual |-> 3000]}

\* Plans with a grown file, alone or behind a file that did not change.
GrownArchives ==
    {<<[path |-> 1, len |-> g.len, actual |-> g.actual]>> : g \in GrownFiles}
    \cup {<<[path |-> 1, len |-> f.len, actual |-> f.actual],
            [path |-> 2, len |-> g.len, actual |-> g.actual]>> :
              f \in {h \in Files : h.actual = h.len}, g \in GrownFiles}

\* TarStream::new on such a plan
GrownInit ==
    /\ requested \in RequestedSizes
    /\ buffer_size = (requested \div Page) * Page
    /\ archive \in GrownArchives
    /\ entries = archive
    /\ state = StateInit
    /\ out = OutNone
    /\ emitted = << >>
    /\ frame = NoFrame
    /\ StreamIdle
    /\ ClientIdle
    /\ CodecIdle

GrownSpec == GrownInit /\ [][TarNext]_vars

(***************************************************************************)
(*                       PROPERTIES OF THE TAR WRITER                      *)
(***************************************************************************)

Stable(file) == file.actual = file.len
CeilDiv(a, b) == (a + b - 1) \div b

RECURSIVE TotalLen(_)
TotalLen(items) == IF items = << >> THEN 0 ELSE Head(items).len + TotalLen(Tail(items))

DataOf(path) == SelectSeq(emitted, LAMBDA it : it.kind = "Data" /\ it.file.path = path)
HeaderAt(path) == {k \in 1..Len(emitted) :
                      emitted[k].kind = "Header" /\ emitted[k].file.path = path}
DataAt(path) == {k \in 1..Len(emitted) :
                      emitted[k].kind = "Data" /\ emitted[k].file.path = path}
PaddingAt == {k \in 1..Len(emitted) : emitted[k].kind = "Padding"}
NoError == \A k \in 1..Len(emitted) : emitted[k].kind # "Error"
HasError == ~NoError

\* C1: for a file of size S and a buffer size B >= 512, once the file's
\* final data chunk has been yielded the stream has yielded for that file
\* exactly one header chunk, before all its data chunks, and data chunks
\* whose lengths are multiples of 512 and sum to ceil(S/512)*512.
C1_BytesPerFile ==
    \A k \in 1..Len(emitted) :
        (emitted[k].kind = "Data" /\ emitted[k].last /\ Stable(emitted[k].file)
            /\ buffer_size >= Page) =>
            LET file == emitted[k].file
            IN /\ Cardinality(HeaderAt(file.path)) = 1
               /\ \A h \in HeaderAt(file.path) : \A d \in DataAt(file.path) : h < d
               /\ \A d \in DataAt(file.path) : emitted[d].len % Page = 0
               /\ TotalLen(DataOf(file.path)) = CeilDiv(file.len, Page) * Page

\* C5: padding chunks come last, there are at most two of them, Padding(0)
\* then Padding(1), each 512 zero bytes; when the stream ends without an
\* error they are its last two chunks, they follow the final data chunk of
\* the last entry, and for an empty entry list they are all there is.
C5_TwoPaddingBlocks ==
    LET n == Len(emitted)
    IN /\ \A k \in PaddingAt : \A j \in (k + 1)..n : emitted[j].kind = "Padding"
       /\ Cardinality(PaddingAt) <= 2
       /\ \A k \in PaddingAt :
            /\ emitted[k].len = Page
            /\ emitted[k].fill = (IF (k - 1) \in PaddingAt THEN 1 ELSE 0)
       /\ (out.kind = "chunk" /\ out.chunk.kind = "Padding") =>
            /\ ChunkBytes(out.chunk) = Zeros(Page)
            /\ out.chunk.index = emitted[n].fill
       /\ (out.kind = "end" /\ NoError) =>
            /\ n >= 2
            /\ PaddingAt = {n - 1, n}
            /\ entries = << >>
            /\ n > 2 => /\ emitted[n - 2].kind = "Data"
                        /\ emitted[n - 2].last
                        /\ emitted[n - 2].file = archive[Len(archive)]
            /\ archive = << >> => n = 2

\* Two files were archived without an error and the stream has ended.
C5_Witness == out.kind = "end" /\ NoError /\ Len(archive) = 2 /\ Len(emitted) >= 6

\* C6: an error item is yielded at most once and only together with the
\* move to Completed; after it no chunk and no second error is yielded,
\* every poll yields end-of-stream, and the entry queue is left as it was.
C6_SingleTerminalError ==
    [][ /\ (emitted' # emitted /\ emitted'[Len(emitted')].kind = "Error") =>
            /\ out'.kind = "error"
            /\ state'.tag = "Completed"
            /\ entries' = entries
        /\ HasError =>
            /\ emitted' = emitted
            /\ entries' = entries
            /\ state'.tag = "Completed"
            /\ out'.kind = "end" ]_vars

\* An I/O failure came after a chunk, with entries still in the queue.
C6_Witness == out.kind = "error" /\ entries # << >> /\ Len(emitted) > 1

\* C7: once a poll has yielded end-of-stream or an error item, every later
\* poll yields end-of-stream, yields nothing else, and the state stays
\* Completed.
C7_CompletedAbsorbing ==
    [][ out.kind \in {"end", "error"} =>
            /\ out'.kind = "end"
            /\ state'.tag = "Completed"
            /\ emitted' = emitted
            /\ entries' = entries ]_vars

\* A poll after the error item has yielded end-of-stream.
C7_Witness == out.kind = "end" /\ HasError /\ state.tag = "Completed"

\* C8: a data chunk being filled in the Read state has exactly
\* min(B/512, ceil(remaining/512)) pages, remaining being the file bytes
\* not yet in a yielded chunk (left + offset), and is no longer than B.
C8_ChunkPages ==
    (state.tag = "Read" /\ Stable(state.file) /\ buffer_size >= Page) =>
        /\ state.chunk.len =
              Page * Min(buffer_size \div Page, CeilDiv(state.left + state.offset, Page))
        /\ state.chunk.len <= buffer_size

\* The buffer size the stream is said to work with.
EffectiveSize(req) == Max(Page, (req \div Page) * Page)

\* C9: for every requested size the stream allocates its chunks as if its
\* buffer size were max(512, floor(requested/512)*512).
C9_EffectiveBufferSize ==
    (state.tag = "Read" /\ Stable(state.file)) =>
        state.chunk.len = Page *
            (IF state.completed = state.offset
             THEN ReadPagesNew(EffectiveSize(requested), state.left + state.offset)
             ELSE ReadPagesNext(EffectiveSize(requested), state.left + state.offset))

\* C10: a yielded data chunk that is not the file's last one is completely
\* filled with file bytes; the bytes of a yielded data chunk are the file's
\* bytes, in file order, followed in the last chunk only by zeros.
C10_OnlyLastChunkPadded ==
    (out.kind = "chunk" /\ out.chunk.kind = "Data") =>
        LET it == emitted[Len(emitted)]
        IN /\ it.kind = "Data"
           /\ it.len = out.chunk.len
           /\ ~it.last => it.fill = it.len
           /\ \A i \in 0..(it.len - 1) :
                DataByte(out.chunk, i) =
                    IF i < it.fill THEN FileByte(it.file.path, it.start + i) ELSE 0

\* The last chunk of a file, partly filled, is yielded after a full one.
C10_Witness ==
    /\ out.kind = "chunk" /\ out.chunk.kind = "Data"
    /\ Len(emitted) >= 2
    /\ LET it == emitted[Len(emitted)]
           before == emitted[Len(emitted) - 1]
       IN /\ it.last /\ 0 < it.fill /\ it.fill < it.len
          /\ before.kind = "Data" /\ ~before.last /\ before.file = it.file

\* The positions of the header chunks yielded so far, in order.
HeaderPositions == SelectSeq([k \in 1..Len(emitted) |-> k],
                             LAMBDA k : emitted[k].kind = "Header")

\* C11: entries are processed in list order, each once: the k-th header
\* yielded is that of the k-th entry of the plan and the queue holds the
\* entries not yet started; the first item is a header or a padding, a
\* header other than the first directly follows the last data chunk of the
\* entry before it; a data chunk directly follows its entry's header or an
\* earlier, not last, data chunk of the same entry; a padding chunk is
\* yielded only with the queue empty and the current entry finished.
C11_EntriesInOrder ==
    LET n == Len(emitted)
        hs == HeaderPositions
        started == Len(archive) - Len(entries)
    IN /\ entries = SubSeq(archive, started + 1, Len(archive))
       /\ Len(hs) <= started
       /\ Len(hs) >= started - 1
       /\ \A i \in 1..Len(hs) : emitted[hs[i]].file = archive[i]
       /\ \A k \in 1..n :
            CASE emitted[k].kind = "Header" ->
                    \/ k = 1
                    \/ /\ emitted[k - 1].kind = "Data"
                       /\ emitted[k - 1].last
                       /\ emitted[k - 1].file.path + 1 = emitted[k].file.path
              [] emitted[k].kind = "Data" ->
                    /\ k > 1
                    /\ emitted[k - 1].kind \in {"Header", "Data"}
                    /\ emitted[k - 1].file = emitted[k].file
                    /\ emitted[k - 1].kind = "Data" => ~emitted[k - 1].last
              [] emitted[k].kind = "Padding" ->
                    /\ entries = << >>
                    /\ Len(hs) = Len(archive)
                    /\ k > 1 => \/ emitted[k - 1].kind = "Padding"
                                \/ emitted[k - 1].kind = "Data" /\ emitted[k - 1].last
              [] OTHER -> k = n

\* Both entries of a plan were archived, the first one in several data
\* chunks, and the padding has begun.
C11_Witness ==
    /\ Len(archive) = 2
    /\ Cardinality(DataAt(1)) >= 2
    /\ HeaderAt(2) # {}
    /\ archive[1].len # archive[2].len
    /\ PaddingAt # {}

RECURSIVE TotalFill(_)
TotalFill(items) == IF items = << >> THEN 0 ELSE Head(items).fill + TotalFill(Tail(items))

\* The number of file bytes the writes of a data chunk put into it.
RECURSIVE Written(_)
Written(writes) == IF writes = << >> THEN 0 ELSE Head(writes).count + Written(Tail(writes))

\* C27: back-pressure.  Every open, metadata call and read is part of a
\* poll (the steps of the model are the iterations of poll_next and nothing
\* else touches a file), and the stream never runs ahead of its consumer:
\* the bytes read of the current file and not yet yielded are the `offset`
\* bytes of the one chunk being filled, which is at most buffer_size plus
\* one block long; a poll that returned a chunk leaves no byte read for the
\* next chunk, and outside the Read state no chunk and no file is held.
C27_BackPressure ==
    /\ state.tag = "Read" =>
          /\ state.completed - TotalFill(DataOf(state.file.path)) = state.offset
          /\ Written(state.chunk.writes) = state.offset
          /\ state.offset <= ChunkLen(state.chunk)
          /\ ChunkLen(state.chunk) <= buffer_size + Page
    /\ (state.tag = "Read" /\ out.kind = "chunk") =>
          /\ state.offset = 0
          /\ state.chunk.writes = << >>
    /\ state.tag # "Read" => DOMAIN state \subseteq {"tag", "index", "file"}

\* A poll returned pending while the chunk being filled holds bytes read
\* by an earlier iteration, after a chunk of the same file was yielded.
C27_Witness ==
    /\ state.tag = "Read"
    /\ out.kind = "pending"
    /\ state.offset > 0
    /\ DataAt(state.file.path) # {}

\* An iteration of poll_next's loop in the Read state that hands back the
\* state it was given and asks for another iteration.
IdleRead ==
    /\ PollRead
    /\ out'.kind = "looping"
    /\ state' = state

\* C31: every poll returns after finitely many iterations of its loop: no
\* iteration in the Read state that keeps the loop going leaves the state
\* as it was (the loop would repeat it for as long as the reads give the
\* same answer), not even when a read reports zero bytes while bytes of
\* the file are still expected.
C31_PollReturns ==
    ~(state.tag = "Read" /\ out.kind = "looping" /\ ENABLED IdleRead)

\* C38: every data chunk yielded has at least one page, for every file
\* size and every buffer size of 512 or more.
C38_DataChunkNonEmpty ==
    buffer_size >= Page =>
        \A k \in 1..Len(emitted) : emitted[k].kind = "Data" => emitted[k].len >= Page

\* C37 as stated: a poll that returns pending leaves the state variant,
\* what it holds and the entry queue as they were.
C37_PendingUnchanged ==
    [][ out'.kind = "pending" =>
            /\ state' = state
            /\ entries' = entries
            /\ emitted' = emitted ]_vars

\* C37, amended: the iteration that returns pending yields nothing, leaves
\* the entry queue alone and stores the state it was handed (in Read: the
\* chunk with its content, offset, left and completed), except that an
\* Open state whose file has been opened stores the Header state for the
\* same entry when it is the metadata that is not ready.
C37_PendingRestores ==
    [][ out'.kind = "pending" =>
            /\ entries' = entries
            /\ emitted' = emitted
            /\ \/ state' = state
               \/ state.tag = "Open" /\ state' = StateHeader(state.file) ]_vars

\* A read was not ready while the chunk was partly filled, with an entry
\* still in the queue.
C37_Witness ==
    /\ out.kind = "pending"
    /\ state.tag = "Read"
    /\ state.offset > 0
    /\ state.offset < ChunkLen(state.chunk)
    /\ entries # << >>

\* The buffer space a read in the Read state is offered.
Space == ChunkLen(state.chunk) - state.offset

\* C32: the remaining-byte counter never underflows: no read is offered
\* more space than there are bytes left, so no read reports more than
\* `left` and `left - bytes` is never below zero (neither a panic of the
\* subtraction nor a wrapped counter is ever seen).
C32_LeftNeverUnderflows ==
    /\ out.kind # "panic"
    /\ state.tag = "Read" => state.left >= 0
    /\ (state.tag = "Read" /\ buffer_size >= Page) => Space <= state.left

(***************************************************************************)
(*              THE HEADER WRITER ON ITS OWN: TarHeader::write             *)
(***************************************************************************)

\* ---- inputs ----
\* Paths: "a", "d/f.txt" and a name of 120 bytes.
Paths == {<<97>>, <<100, 47, 102, 46, 116, 120, 116>>, [i \in 1..120 |-> 120]}

\* st_mode (file type and permission bits), st_size and st_mtime.
Modes == {33188, 33279, 32768}
Sizes == {0, 1025, 2147483647}
Mtimes == {0, 1700000000}

Metadata == {[path |-> p, mode |-> m, size |-> z, mtime |-> t] :
                p \in Paths, m \in Modes, z \in Sizes, t \in Mtimes}

\* TarHeader::empty(path), about to be written for some metadata; `done`
\* counts the calls write has made, `sum` is what calculate_checksum
\* returned.
HeaderInit ==
    /\ codec \in {[handler |-> "header", meta |-> m, data |-> HeaderEmpty,
                   done |-> 0, sum |-> 0] : m \in Metadata}
    /\ archive = << >> /\ requested = 0 /\ buffer_size = 0 /\ entries = << >>
    /\ state = StateCompleted /\ out = OutNone /\ emitted = << >>
    /\ frame = NoFrame
    /\ StreamIdle
    /\ ClientIdle

\* The next call of TarHeader::write writes a field.
WriteField ==
    /\ codec.handler = "header"
    /\ codec.done < Len(HeaderCalls) - 1
    /\ codec' = [codec EXCEPT
                    !.data = HeaderCall(@, HeaderCalls[codec.done + 1], codec.meta),
                    !.done = @ + 1]
    /\ UNCHANGED <<tarVars, streamVars, clientVars>>

\* The second half of write_chksum: the sum is taken and written.
WriteChksum ==
    /\ codec.handler = "header"
    /\ codec.done = Len(HeaderCalls) - 1
    /\ codec' = [codec EXCEPT
                    !.data = HeaderCall(@, HeaderCalls[codec.done + 1], codec.meta),
                    !.sum = CalculateChecksum(codec.data),
                    !.done = @ + 1]
    /\ UNCHANGED <<tarVars, streamVars, clientVars>>

HeaderNext ==
    \/ WriteField
    \/ WriteChksum

HeaderSpec == HeaderInit /\ [][HeaderNext]_vars

\* The bytes of a header at offsets from..to (0-based, inclusive).
Field(header, from, to) == SubSeq(header, from + 1, to + 1)

\* A header with its checksum field replaced by eight spaces.
Blanked(header) == SubSeq(header, 1, 148) \o Spaces \o SubSeq(header, 157, Len(header))

\* The value of a sequence of octal ASCII digits.
RECURSIVE OctalValue(_)
OctalValue(digits) ==
    IF digits = << >> THEN 0
    ELSE OctalValue(SubSeq(digits, 1, Len(digits) - 1)) * 8 + (digits[Len(digits)] - 48)

\* C29: the checksum is computed last.  When write blanks the checksum
\* field, name, mode, uid, gid, size, mtime, magic and type flag hold their
\* final bytes; bytes 148..155 then hold eight spaces; the sum taken is the
\* sum of all 512 bytes as unsigned bytes, needs at most 7 octal digits,
\* and ends up in bytes 148..154 as 7 zero-padded octal digits with NUL in
\* byte 155; the bytes outside 148..155 are the same before and after.
C29_ChecksumLast ==
    codec.handler = "header" =>
        LET final == HeaderWrite(codec.meta)
            outside(h) == SubSeq(h, 1, 148) \o SubSeq(h, 157, Len(h))
        IN /\ Len(codec.data) = Page
           /\ codec.done >= 8 =>
                 /\ outside(codec.data) = outside(final)
                 /\ Field(codec.data, 257, 264) = Magic
                 /\ Field(codec.data, 156, 156) = <<48>>
                 /\ Field(codec.data, 0, 0) # <<0>>
                 /\ Field(codec.data, 100, 106) # [i \in 1..7 |-> 0]
                 /\ OctalValue(Field(codec.data, 124, 134)) = codec.meta.size
           /\ codec.done = 9 => Field(codec.data, 148, 155) = Spaces
           /\ codec.done = 10 =>
                 /\ codec.data = final
                 /\ codec.sum = SumBytes(Blanked(codec.data), 1, Page)
                 /\ codec.sum < 2097152
                 /\ \A i \in 148..154 : codec.data[i + 1] \in 48..55
                 /\ OctalValue(Field(codec.data, 148, 154)) = codec.sum
                 /\ codec.data[156] = 0

\* A header for a name longer than the name field was written to its end.
C29_Witness ==
    /\ codec.handler = "header"
    /\ codec.done = 10
    /\ Len(codec.meta.path) > 99
    /\ codec.meta.size > 0
    /\ codec.sum > 4095

(***************************************************************************)
(*              THE REQUEST BODY: TarBody over the tar stream              *)
(*                                                                         *)
(* TarBody::poll_frame calls the inner stream's poll_next once and matches *)
(* on what it returned.  The inner stream is the tar writer above; its     *)
(* steps are the iterations of poll_next's loop, and poll_next has         *)
(* returned when `out` is neither "none" nor "looping".  `frame` holds     *)
(* what poll_frame returned and the poll result it was made from.          *)
(***************************************************************************)

\* Mutant of PollFrame: a padding chunk becomes an empty data frame.
PollFramePaddingEmpty(polled) ==
    CASE polled.kind = "pending" -> [kind |-> "pending"]
      [] polled.kind = "end" -> [kind |-> "end"]
      [] polled.kind = "error" ->
            [kind |-> "error", error |-> "OutgoingArchiveFailed", source |-> polled.error]
      [] polled.kind = "chunk" ->
            [kind |-> "data",
             bytes |-> IF polled.chunk.kind = "Padding" THEN << >>
                       ELSE ChunkBytes(polled.chunk)]

\* The match of TarBody::poll_frame on what poll_next returned:
\* Poll::Pending, Ready(None), Ready(Some(Err)), Ready(Some(Ok(chunk))).
PollFrame(polled) ==
    CASE polled.kind = "pending" -> [kind |-> "pending"]
      [] polled.kind = "end" -> [kind |-> "end"]
      [] polled.kind = "error" ->
            [kind |-> "error", error |-> "OutgoingArchiveFailed", source |-> polled.error]
      [] polled.kind = "chunk" ->
            [kind |-> "data", bytes |-> ChunkBytes(polled.chunk)]

\* poll_next has returned.
Polled == out.kind \notin {"none", "looping"}

\* poll_frame is inside poll_next (or about to call it): the last result
\* of poll_next, if any, has been returned as a frame.
InPoll == ~Polled \/ (frame.of = out /\ frame.at = Len(emitted))

\* TarBody::from(stream) for a new stream
BodyInit == TarInit

\* The iterations of the inner poll_next.
InnerInit == InPoll /\ PollInit
InnerOpen == InPoll /\ PollOpen
InnerHeader == InPoll /\ PollHeader
InnerRead == InPoll /\ PollRead
InnerPadding == InPoll /\ PollPadding
InnerCompleted == InPoll /\ PollCompleted

\* TarBody::poll_frame, from the return of poll_next to its own return
Return ==
    /\ ~InPoll
    /\ frame' = [of |-> out, at |-> Len(emitted), ret |-> PollFrame(out),
                 sent |-> frame.sent + (IF out.kind = "chunk" THEN 1 ELSE 0)]
    /\ UNCHANGED <<archive, requested, buffer_size, entries, state, out, emitted,
                   streamVars, clientVars, codecVars>>

BodyNext ==
    \/ InnerInit
    \/ InnerOpen
    \/ InnerHeader
    \/ InnerRead
    \/ InnerPadding
    \/ InnerCompleted
    \/ Return

BodySpec == BodyInit /\ [][BodyNext]_vars

\* The chunks the stream has yielded so far, and the result of poll_next
\* that poll_frame has still to return.
Chunks == SelectSeq(emitted, LAMBDA it : it.kind # "Error")
Unreturned == ~InPoll

\* The name field of a header block: the bytes up to the first zero.
NameField(bytes) ==
    LET ends == {k \in 1..100 : bytes[k] = 0}
    IN SubSeq(bytes, 1, (CHOOSE k \in ends : \A j \in ends : k <= j) - 1)

\* C28: TarBody returns one frame per result of the inner poll_next, in
\* order: pending as pending, the end of the stream as the end of the body,
\* an error as the body error OutgoingArchiveFailed carrying it, and a
\* chunk as one data frame of the chunk's bytes (a header's 512 bytes,
\* 512 zeros for padding, the buffer of a data chunk); no chunk is skipped
\* and none is returned twice, so the frames returned so far are the
\* chunks yielded so far.
C28_BodyRefinesStream ==
    /\ frame.sent + (IF Unreturned /\ out.kind = "chunk" THEN 1 ELSE 0) = Len(Chunks)
    /\ (Polled /\ ~Unreturned) => frame.of = out
    /\ frame.at <= Len(emitted) /\ frame.sent <= frame.at
    /\ frame.of.kind = "none" <=> frame.ret.kind = "none"
    /\ frame.of.kind = "pending" <=> frame.ret.kind = "pending"
    /\ frame.of.kind = "end" <=> frame.ret.kind = "end"
    /\ frame.of.kind = "error" <=> frame.ret.kind = "error"
    /\ frame.of.kind = "chunk" <=> frame.ret.kind = "data"
    /\ frame.ret.kind = "error" =>
          /\ frame.ret.error = "OutgoingArchiveFailed"
          /\ frame.ret.source = frame.of.error
    /\ frame.ret.kind = "data" =>
          LET chunk == frame.of.chunk
              bytes == frame.ret.bytes
              last == emitted[frame.sent]
          IN /\ Len(bytes) = ChunkLen(chunk)
             /\ last.kind = chunk.kind /\ last.len = Len(bytes)
             /\ chunk.kind = "Header" =>
                   /\ Len(bytes) = Page
                   /\ bytes = HeaderWrite(HeaderMeta(chunk))
                   /\ NameField(bytes) = FileName(last.file.path)
                   /\ OctalValue(SubSeq(bytes, 125, 135)) = last.file.len
             /\ chunk.kind = "Padding" =>
                   /\ Len(bytes) = Page
                   /\ \A i \in 1..Page : bytes[i] = 0
             /\ chunk.kind = "Data" =>
                   /\ \A i \in 1..Len(bytes) : bytes[i] = DataByte(chunk, i - 1)
                   /\ \A i \in 1..last.fill :
                         bytes[i] = FileByte(last.file.path, last.start + i - 1)

\* A data frame behind two others has been returned, made from a data
\* chunk that holds file content.
C28_Witness ==
    /\ frame.ret.kind = "data"
    /\ frame.sent >= 3
    /\ frame.of.chunk.kind = "Data"
    /\ frame.of.chunk.writes # << >>
    /\ frame.ret.bytes[1] # 0

(***************************************************************************)
(*                  DECODER STREAM (DockerStream, log codec)               *)
(***************************************************************************)

\* ---- bounds and inputs of the stream model ----
MaxRecords == 2
MaxBadFrames == 2

\* The initial length of DockerStreamBuffer.data (vec![0; 65536]).
BufferCapacity == 65536

\* Log records the daemon may send: a stream id and a payload.  The last
\* payload is not UTF-8.
LogRecords == {[id |-> 1, payload |-> <<97>>], [id |-> 2, payload |-> <<195, 169>>],
               [id |-> 1, payload |-> << >>], [id |-> 2, payload |-> <<255>>]}

\* Numbers of bytes missing at the end of what the daemon sends.
Cuts == {0, 3}

\* A length as the four big-endian bytes of a frame header.
BigEndian(n) == <<(n \div 16777216) % 256, (n \div 65536) % 256, (n \div 256) % 256, n % 256>>

\* One frame of the multiplexed log stream: [id, 0, 0, 0, size], payload.
LogFrame(r) == <<r.id, 0, 0, 0>> \o BigEndian(Len(r.payload)) \o r.payload

RECURSIVE RecordLists(_)
RecordLists(n) ==
    IF n = 0 THEN {<< >>}
    ELSE LET shorter == RecordLists(n - 1)
         IN shorter \cup {Append(s, r) : s \in {t \in shorter : Len(t) = n - 1},
                                          r \in LogRecords}

RECURSIVE Flatten(_)
Flatten(frames) == IF frames = << >> THEN << >> ELSE Head(frames) \o Flatten(Tail(frames))

Encode(records) == Flatten([i \in 1..Len(records) |-> LogFrame(records[i])])

\* What the daemon sends of the records `rs` when the last `c` bytes are
\* missing.
Truncated(rs, c) == SubSeq(Encode(rs), 1, Max(0, Len(Encode(rs)) - c))

Wires == {Truncated(rs, c) : rs \in RecordLists(MaxRecords), c \in Cuts}

\* ---- DockerStreamBuffer (docker/stream/common.rs:14-49) ----
\* `data` holds the backing vector up to the highest index ever written;
\* beyond it the vector still holds the zeros it was created with.
NoBuffer == [some |-> FALSE]
NewBuffer == [some |-> TRUE, position |-> 0, size |-> BufferCapacity, data |-> << >>]

BufferView(buf) == SubSeq(buf.data, 1, buf.position)

BufferAppend(buf, bytes) ==
    LET expected == buf.position + Len(bytes)
    IN [buf EXCEPT
          !.size = Max(buf.size, expected),
          !.position = expected,
          !.data = SubSeq(buf.data, 1, buf.position) \o bytes
                       \o SubSeq(buf.data, expected + 1, Len(buf.data))]

\* Mutant of BufferConsume: the tail is moved but the length stays.
BufferConsumeKeepsLength(buf, count) ==
    [buf EXCEPT
        !.data = SubSeq(buf.data, count + 1, buf.position)
                     \o SubSeq(buf.data, buf.position - count + 1, Len(buf.data))]

\* Mutant of BufferConsume: the length shrinks but the tail is not moved.
BufferConsumeNoMove(buf, count) ==
    [buf EXCEPT !.position = buf.position - count]

BufferConsume(buf, count) ==
    [buf EXCEPT
        !.position = buf.position - count,
        !.data = SubSeq(buf.data, count + 1, buf.position)
                     \o SubSeq(buf.data, buf.position - count + 1, Len(buf.data))]

\* ---- stream items ----
ItemOk(value) == [ok |-> TRUE, value |-> value]
ItemErr(what) == [ok |-> FALSE, error |-> what]

\* std::str::from_utf8, as used on a frame's payload
RECURSIVE Utf8Valid(_)
Utf8Valid(b) ==
    LET n == Len(b)
        cont(i) == i <= n /\ b[i] >= 128 /\ b[i] <= 191
        rest(k) == Utf8Valid(SubSeq(b, k + 1, n))
    IN IF n = 0 THEN TRUE
       ELSE LET c == b[1]
            IN CASE c < 128 -> rest(1)
                 [] c >= 194 /\ c <= 223 -> cont(2) /\ rest(2)
                 [] c >= 224 /\ c <= 239 ->
                        /\ cont(2) /\ cont(3)
                        /\ (c = 224 => b[2] >= 160)
                        /\ (c = 237 => b[2] <= 159)
                        /\ rest(3)
                 [] c >= 240 /\ c <= 244 ->
                        /\ cont(2) /\ cont(3) /\ cont(4)
                        /\ (c = 240 => b[2] >= 144)
                        /\ (c = 244 => b[2] <= 143)
                        /\ rest(4)
                 [] OTHER -> FALSE

\* Mutant of FromBigEndian: the length is read least significant byte first.
FromLittleEndian(b1, b2, b3, b4) == ((b4 * 256 + b3) * 256 + b2) * 256 + b1

\* u32::from_be_bytes
FromBigEndian(b1, b2, b3, b4) == ((b1 * 256 + b2) * 256 + b3) * 256 + b4

\* The loop of ContainerLogsStreamHandler::extract over `data`, from
\* offset `current` (0-based) with the items found so far.
RECURSIVE LogWalk(_, _, _)
LogWalk(data, current, result) ==
    LET length == Len(data)
        stop == [current |-> current, result |-> result]
    IN IF current >= length THEN stop
       ELSE IF current + 8 > length THEN stop
       ELSE LET size == FromBigEndian(data[current + 5], data[current + 6],
                                      data[current + 7], data[current + 8])
                start == current + 8
                end == start + size
            IN IF end > length THEN stop
               ELSE LET payload == SubSeq(data, start + 1, end)
                    IN IF Utf8Valid(payload)
                       THEN LogWalk(data, end, Append(result, ItemOk(payload)))
                       ELSE [current |-> end,
                             result |-> Append(result, ItemErr("Utf8ParsingFailed"))]

\* ContainerLogsStreamHandler::extract: the items and the buffer afterwards
LogExtract(buf) ==
    LET walk == LogWalk(BufferView(buf), 0, << >>)
    IN [items |-> walk.result,
        buffer |-> IF walk.current > 0 THEN BufferConsume(buf, walk.current) ELSE buf]

\* ---- DockerStream (docker/stream/common.rs) ----
\* The items of a batch up to and including its first error.
RECURSIVE UntilError(_)
UntilError(items) ==
    IF items = << >> THEN << >>
    ELSE IF ~Head(items).ok THEN <<Head(items)>>
    ELSE <<Head(items)>> \o UntilError(Tail(items))

\* Mutant of StreamAppend: an error in the batch does not drop the buffer.
StreamAppendKeepsBuffer(buf, queue, bytes) ==
    IF ~buf.some THEN [buffer |-> NoBuffer, queue |-> queue]
    ELSE LET ex == LogExtract(BufferAppend(buf, bytes))
         IN [buffer |-> ex.buffer, queue |-> queue \o UntilError(ex.items)]

\* DockerStream::append: the buffer and the prefetch queue afterwards
StreamAppend(buf, queue, bytes) ==
    IF ~buf.some THEN [buffer |-> NoBuffer, queue |-> queue]
    ELSE LET ex == LogExtract(BufferAppend(buf, bytes))
             pushed == UntilError(ex.items)
             broken == \E k \in 1..Len(pushed) : ~pushed[k].ok
         IN [buffer |-> IF broken THEN NoBuffer ELSE ex.buffer,
             queue |-> queue \o pushed]

\* Mutant of StreamFail: the error is put at the front of the queue.
StreamFailAtFront(queue, what) ==
    [buffer |-> NoBuffer, queue |-> <<ItemErr(what)>> \o queue]

\* DockerStream::fail
StreamFail(queue, what) == [buffer |-> NoBuffer, queue |-> Append(queue, ItemErr(what))]

\* ---- results of one iteration of DockerStream::poll_next's loop ----
SOutLooping == [kind |-> "looping"]
SOutPending == [kind |-> "pending"]
SOutEnd == [kind |-> "end"]
SOutPanic == [kind |-> "panic"]
SOutItem(item) == [kind |-> "item", item |-> item]

\* Mutant of PopFront: once the body has ended the poll reports the end of
\* the stream without looking at the queue.
PopFrontUnlessEnded(queue, ifEmpty) ==
    IF queue = << >> \/ ifEmpty.kind = "end"
    THEN /\ prefetched' = queue
         /\ sout' = ifEmpty
         /\ delivered' = delivered
    ELSE /\ prefetched' = Tail(queue)
         /\ sout' = SOutItem(Head(queue))
         /\ delivered' = Append(delivered, Head(queue))

\* Mutant of PopFront: the item taken is the queue's last (pop_back).
PopBack(queue, ifEmpty) ==
    IF queue = << >>
    THEN /\ prefetched' = << >>
         /\ sout' = ifEmpty
         /\ delivered' = delivered
    ELSE /\ prefetched' = SubSeq(queue, 1, Len(queue) - 1)
         /\ sout' = SOutItem(queue[Len(queue)])
         /\ delivered' = Append(delivered, queue[Len(queue)])

\* prefetched.pop_front() and what the iteration returns with it
PopFront(queue, ifEmpty) ==
    IF queue = << >>
    THEN /\ prefetched' = << >>
         /\ sout' = ifEmpty
         /\ delivered' = delivered
    ELSE /\ prefetched' = Tail(queue)
         /\ sout' = SOutItem(Head(queue))
         /\ delivered' = Append(delivered, Head(queue))

\* DockerStream::from on the response of a log endpoint
StreamInit ==
    /\ body \in {[wire |-> w, bad |-> 0, ended |-> FALSE] : w \in Wires}
    /\ buffer = NewBuffer
    /\ prefetched = << >>
    /\ connection = "running"
    /\ sout = OutNone
    /\ delivered = << >>
    /\ archive = << >> /\ requested = 0 /\ buffer_size = 0 /\ entries = << >>
    /\ state = StateCompleted /\ out = OutNone /\ emitted = << >>
    /\ frame = NoFrame
    /\ ClientIdle
    /\ CodecIdle

\* poll_next, poll_frame is Pending
FramePending ==
    /\ sout.kind # "panic"
    /\ ~body.ended
    /\ sout' = SOutPending
    /\ UNCHANGED <<body, buffer, prefetched, connection, delivered, tarVars, clientVars, codecVars>>

\* poll_next, poll_frame yields a data frame: handle_hyper_frame, append
FrameData ==
    /\ sout.kind # "panic"
    /\ ~body.ended
    /\ \E n \in 1..Len(body.wire) :
          LET after == StreamAppend(buffer, prefetched, SubSeq(body.wire, 1, n))
          IN /\ body' = [body EXCEPT !.wire = SubSeq(body.wire, n + 1, Len(body.wire))]
             /\ buffer' = after.buffer
             /\ PopFront(after.queue, SOutLooping)
    /\ UNCHANGED <<connection, tarVars, clientVars, codecVars>>

\* poll_next, poll_frame yields an error or a frame that is not data:
\* handle_hyper_frame, fail
FrameBad ==
    /\ sout.kind # "panic"
    /\ ~body.ended
    /\ body.bad < MaxBadFrames
    /\ \E what \in {"HttpFrameFailed", "HttpFrameUnrecognized"} :
          LET after == StreamFail(prefetched, what)
          IN /\ body' = [body EXCEPT !.bad = body.bad + 1]
             /\ buffer' = after.buffer
             /\ PopFront(after.queue, SOutLooping)
    /\ UNCHANGED <<connection, tarVars, clientVars, codecVars>>

\* DockerStream::handle_connection_cleanup: the driver handle is polled;
\* a JoinHandle that has already returned its result panics when polled.
ConnectionCleanup ==
    IF connection = "consumed"
    THEN /\ sout' = SOutPanic
         /\ UNCHANGED <<buffer, prefetched, connection, delivered>>
    ELSE \E joined \in {"pending", "ok", "err", "panicked"} :
            CASE joined = "pending" ->
                    /\ sout' = SOutPending
                    /\ UNCHANGED <<buffer, prefetched, connection, delivered>>
              [] joined = "ok" ->
                    /\ connection' = "consumed"
                    /\ buffer' = buffer
                    /\ PopFront(prefetched, SOutEnd)
              [] OTHER ->
                    LET after == StreamFail(prefetched,
                                    IF joined = "err" THEN "ConnectionFailed"
                                    ELSE "TokioFailed")
                    IN /\ connection' = "consumed"
                       /\ buffer' = after.buffer
                       /\ PopFront(after.queue, SOutEnd)

\* poll_next, poll_frame yields None: flush the queue, then clean up
BodyEnd ==
    /\ sout.kind # "panic"
    /\ body.wire = << >>
    /\ body' = [body EXCEPT !.ended = TRUE]
    /\ IF prefetched # << >>
       THEN /\ PopFront(prefetched, SOutEnd)
            /\ UNCHANGED <<buffer, connection>>
       ELSE ConnectionCleanup
    /\ UNCHANGED <<tarVars, clientVars, codecVars>>

StreamNext ==
    \/ FramePending
    \/ FrameData
    \/ FrameBad
    \/ BodyEnd

StreamSpec == StreamInit /\ [][StreamNext]_vars

\* The same stream, with the records the daemon encoded remembered next to
\* the body, so that what is delivered can be compared with what was sent.
SentInit ==
    /\ body \in {[wire |-> Truncated(rs, c), bad |-> 0, ended |-> FALSE,
                   records |-> rs, cut |-> c] :
                     rs \in RecordLists(MaxRecords), c \in Cuts}
    /\ buffer = NewBuffer
    /\ prefetched = << >>
    /\ connection = "running"
    /\ sout = OutNone
    /\ delivered = << >>
    /\ archive = << >> /\ requested = 0 /\ buffer_size = 0 /\ entries = << >>
    /\ state = StateCompleted /\ out = OutNone /\ emitted = << >>
    /\ frame = NoFrame
    /\ ClientIdle
    /\ CodecIdle

SentSpec == SentInit /\ [][StreamNext]_vars

\* The stream with a consumer that keeps polling and a body that does not
\* stay pending for ever: as long as it has not ended it yields another
\* frame or ends, and once it has ended every poll finds it ended.
PolledInit ==
    /\ body \in {[wire |-> Encode(rs), bad |-> 0, ended |-> FALSE] :
                     rs \in RecordLists(MaxRecords)}
    /\ buffer = NewBuffer
    /\ prefetched = << >>
    /\ connection = "running"
    /\ sout = OutNone
    /\ delivered = << >>
    /\ archive = << >> /\ requested = 0 /\ buffer_size = 0 /\ entries = << >>
    /\ state = StateCompleted /\ out = OutNone /\ emitted = << >>
    /\ frame = NoFrame
    /\ ClientIdle
    /\ CodecIdle

PolledSpec == PolledInit /\ [][StreamNext]_vars /\ WF_vars(FrameData \/ FrameBad \/ BodyEnd)

(***************************************************************************)
(*                    PROPERTIES OF THE DECODER STREAM                     *)
(***************************************************************************)

\* C2: whenever the prefetch queue is non-empty, the next poll yields the
\* queue's front item and pulls no frame from the body; so it never
\* returns pending with an item still queued.
C2_QueueFirst ==
    [][ prefetched # << >> =>
            /\ sout' = SOutItem(Head(prefetched))
            /\ prefetched' = Tail(prefetched)
            /\ body' = body ]_vars

DriverError(o) ==
    o.kind = "item" /\ ~o.item.ok /\ o.item.error \in {"ConnectionFailed", "TokioFailed"}

\* C3: when the body has ended and the queue is empty the driver handle is
\* awaited: the poll is pending, or yields end-of-stream (driver succeeded),
\* or yields one ConnectionFailed / TokioFailed item; that error item is
\* terminal: the poll after it yields end-of-stream.
C3_DriverJoinTerminal ==
    [][ /\ (body'.ended /\ prefetched = << >> /\ connection = "running") =>
            \/ sout' = SOutPending /\ connection' = "running"
            \/ sout' = SOutEnd /\ connection' = "consumed"
            \/ DriverError(sout') /\ connection' = "consumed" /\ prefetched' = << >>
        /\ DriverError(sout) => sout' = SOutEnd ]_vars

\* Every item enqueued so far, in the order it was enqueued, given that
\* items leave the queue at its front only.
Enqueued == delivered \o prefetched

\* The body bytes a step took off the wire as one data frame.
FrameTaken == SubSeq(body.wire, 1, Len(body.wire) - Len(body'.wire))

\* C12: items are delivered first in, first out, none lost, doubled or
\* reordered: a step extends the sequence of enqueued items at its end only,
\* yields at most one item, the oldest not yet delivered, and the items a
\* data frame adds are those the codec returned for the buffer with that
\* frame appended, in the codec's order.
C12_Fifo ==
    [][ /\ Len(Enqueued') >= Len(Enqueued)
        /\ SubSeq(Enqueued', 1, Len(Enqueued)) = Enqueued
        /\ IF sout'.kind = "item"
           THEN /\ delivered' = Append(delivered, sout'.item)
                /\ sout'.item = Enqueued'[Len(delivered) + 1]
           ELSE delivered' = delivered
        /\ (body'.wire # body.wire /\ buffer.some) =>
              SubSeq(Enqueued', Len(Enqueued) + 1, Len(Enqueued')) =
                  LogExtract(BufferAppend(buffer, FrameTaken)).items ]_vars

\* Two different items that arrived in one data frame were both delivered.
C12_Witness ==
    /\ Len(delivered) = 2
    /\ delivered[1].ok /\ delivered[2].ok
    /\ delivered[1] # delivered[2]
    /\ body.wire = << >>
    /\ buffer.some /\ buffer.position = 0

\* An error item made by the codec, as opposed to the transport.
CodecError(item) == ~item.ok /\ item.error = "Utf8ParsingFailed"

\* The items a step enqueued.
Added == SubSeq(Enqueued', Len(Enqueued) + 1, Len(Enqueued'))

\* C13: a codec error in a batch breaks the stream: the step that enqueues
\* it enqueues before it the items the codec returned before it, nothing
\* after it, and drops the buffer; a dropped buffer stays dropped, so the
\* codec is not run again, and whatever body bytes arrive afterwards no
\* decoded item (a text or a codec error) is enqueued any more.
C13_BrokenAfterError ==
    [][ /\ ~buffer.some =>
              /\ ~buffer'.some
              /\ \A k \in 1..Len(Added) : ~Added[k].ok /\ ~CodecError(Added[k])
        /\ (\E k \in 1..Len(Added) : CodecError(Added[k])) =>
              /\ buffer.some /\ ~buffer'.some
              /\ CodecError(Added[Len(Added)])
              /\ \A k \in 1..(Len(Added) - 1) : Added[k].ok
              /\ Added = LogExtract(BufferAppend(buffer, FrameTaken)).items
        /\ \A k \in 1..Len(Enqueued') :
              CodecError(Enqueued'[k]) =>
                  /\ ~buffer'.some
                  /\ \A j \in (k + 1)..Len(Enqueued') :
                        ~Enqueued'[j].ok /\ ~CodecError(Enqueued'[j]) ]_vars

\* After a payload that is not UTF-8 broke the stream and its error was
\* delivered, a further data frame arrived and left the queue empty.
C13_Witness ==
    /\ delivered # << >>
    /\ CodecError(delivered[Len(delivered)])
    /\ ~buffer.some
    /\ prefetched = << >>
    /\ body.wire = << >>
    /\ sout = SOutLooping

\* An error item made for a body frame that failed or is not data.
FrameError(item) ==
    ~item.ok /\ item.error \in {"HttpFrameFailed", "HttpFrameUnrecognized"}

\* C26: a body frame that fails or is not data enqueues exactly one error
\* item (HttpFrameFailed or HttpFrameUnrecognized), behind the items queued
\* before it, and drops the buffer; the poll yields the oldest queued item,
\* so what was queued before the error is delivered before it, in order;
\* with the buffer dropped, body bytes arriving later are appended nowhere
\* and add no item.
C26_FrameErrorBreaks ==
    [][ /\ body'.bad # body.bad =>
              /\ Len(Added) = 1
              /\ FrameError(Added[1])
              /\ Enqueued' = Append(Enqueued, Added[1])
              /\ ~buffer'.some
              /\ sout' = SOutItem(Head(Append(prefetched, Added[1])))
              /\ prefetched' = Tail(Append(prefetched, Added[1]))
        /\ (\E k \in 1..Len(Added) : FrameError(Added[k])) => body'.bad # body.bad
        /\ (~buffer.some /\ body'.wire # body.wire) =>
              /\ ~buffer'.some
              /\ Added = << >> ]_vars

\* Two items came in one data frame; the second was still queued when a
\* body frame failed, and was delivered before the frame's error.
C26_Witness ==
    /\ Len(delivered) = 3
    /\ delivered[1].ok /\ delivered[2].ok
    /\ FrameError(delivered[3])
    /\ ~buffer.some
    /\ prefetched = << >>

\* An error item made by joining the driver task.
DriverItem(item) == ~item.ok /\ item.error \in {"ConnectionFailed", "TokioFailed"}

\* The items a log stream owes for the records the daemon encoded: the
\* payload of each wire frame as a string, one item per frame, in order.
Expected == [i \in 1..Len(body.records) |-> ItemOk(body.records[i].payload)]

\* The daemon sent every frame whole, every payload is UTF-8, and no body
\* frame failed or was of another kind than data.
SentWell ==
    /\ body.cut = 0
    /\ body.bad = 0
    /\ \A i \in 1..Len(body.records) : Utf8Valid(body.records[i].payload)

\* C21: log round trip.  For UTF-8 strings encoded as 8-byte-header frames
\* and delivered as data frames split at any byte positions, every item the
\* stream enqueues is the string of the wire frame of the same rank, and
\* once the body has ended and the driver has succeeded the stream has
\* yielded exactly those strings, one per frame, in order, and then
\* end-of-stream.
C21_LogRoundTrip ==
    SentWell =>
        /\ \A k \in 1..Len(Enqueued) :
              \/ DriverItem(Enqueued[k]) /\ k = Len(Enqueued)
              \/ k <= Len(Expected) /\ Enqueued[k] = Expected[k]
        /\ (sout = SOutEnd /\ connection = "consumed"
               /\ \A k \in 1..Len(delivered) : ~DriverItem(delivered[k])) =>
              /\ delivered = Expected
              /\ prefetched = << >>
              /\ body.wire = << >>

\* Two strings with different stream ids, one of two bytes, were sent whole
\* and the stream ended after yielding both.
C21_Witness ==
    /\ SentWell
    /\ Len(body.records) = 2
    /\ body.records[1].id # body.records[2].id
    /\ Len(body.records[2].payload) = 2
    /\ delivered = Expected
    /\ sout = SOutEnd
    /\ connection = "consumed"

\* C33: an error item, once delivered, is the last item of the stream:
\* nothing is delivered after it, neither a decoded value nor another
\* error.
C33_ErrorIsLast ==
    \A k \in 1..Len(delivered) : ~delivered[k].ok => k = Len(delivered)

\* The most items a stream of the model can enqueue.

\* C34: with a consumer that keeps polling and a body that goes on, every
\* item put into the prefetch queue is yielded in the end: a step never
\* takes an item out of the sequence of enqueued items, whether the body
\* ends or the stream is marked broken, and the n-th item enqueued is
\* eventually the n-th item delivered.
C34_QueueDelivered ==
    /\ [][SubSeq(Enqueued', 1, Len(Enqueued)) = Enqueued]_vars
    /\ (prefetched # << >>) ~> (prefetched = << >>)

\* The poll that found the body ended yielded a frame error that was
\* still queued, the third item of a broken stream.
C34_Witness ==
    /\ body.ended
    /\ sout.kind = "item"
    /\ FrameError(sout.item)
    /\ ~buffer.some
    /\ Len(delivered) >= 3
    /\ prefetched = << >>

(***************************************************************************)
(*            THE IMAGE-PULL CODEC (ImageCreateStreamHandler)              *)
(***************************************************************************)

\* Option<T>
None == [some |-> FALSE]
Some(v) == [some |-> TRUE, value |-> v]

\* ImageCreateStreamItem with no field present
NoFields == [status |-> None, id |-> None, error |-> None, error_detail |-> None,
             progress |-> None, progress_detail |-> None]

\* JSON documents of the closed schema of ImageCreateStreamItem, as the
\* bytes on the wire and the item serde_json::from_slice makes of them.
\* {}
DocEmptyObject ==
    [text |-> <<123, 125>>,
     item |-> NoFields]

\* {"status":"s"}
DocStatus ==
    [text |-> <<123, 34, 115, 116, 97, 116, 117, 115, 34, 58, 34, 115, 34,
              125>>,
     item |-> [NoFields EXCEPT !.status = Some("s")]]

\* {"id":"i","status":"s"}
DocIdStatus ==
    [text |-> <<123, 34, 105, 100, 34, 58, 34, 105, 34, 44, 34, 115, 116,
              97, 116, 117, 115, 34, 58, 34, 115, 34, 125>>,
     item |-> [NoFields EXCEPT !.id = Some("i"), !.status = Some("s")]]

\* {"error":"e","errorDetail":{"message":"m"}}
DocError ==
    [text |-> <<123, 34, 101, 114, 114, 111, 114, 34, 58, 34, 101, 34, 44,
              34, 101, 114, 114, 111, 114, 68, 101, 116, 97, 105, 108, 34,
              58, 123, 34, 109, 101, 115, 115, 97, 103, 101, 34, 58, 34,
              109, 34, 125, 125>>,
     item |-> [NoFields EXCEPT !.error = Some("e"), !.error_detail = Some([message |-> "m"])]]

Documents == {DocEmptyObject, DocStatus, DocIdStatus, DocError}

\* Records that from_slice rejects: an empty record and a truncated object.
RecEmpty == << >>

\* {
RecOpenBrace == <<123>>

\* raise_deserialization_failed(None, error, data)
ItemDeserializationFailed(data) ==
    [ok |-> FALSE, error |-> "DeserializationFailed", status |-> None, data |-> data]

\* serde_json::from_slice::<ImageCreateStreamItem> on one record, for the
\* records in use: a document of the table parses to its item, any other
\* byte string here is not a document of the schema.
ParseItem(data) ==
    IF \E d \in Documents : d.text = data
    THEN ItemOk((CHOOSE d \in Documents : d.text = data).item)
    ELSE ItemDeserializationFailed(data)

\* Mutant of ImageLineFrom: the Progress pattern is tried before the Error
\* pattern.
ImageLineFromProgressFirst(item) ==
    IF ~item.ok THEN item
    ELSE LET v == item.value
         IN IF /\ v.id.some /\ v.status.some /\ v.progress.some
               /\ v.progress_detail.some
               /\ v.progress_detail.value.total.some
               /\ v.progress_detail.value.current.some
            THEN ItemOk([variant |-> "Progress", id |-> v.id.value,
                         status |-> v.status.value, info |-> v.progress.value,
                         total |-> v.progress_detail.value.total.value,
                         current |-> v.progress_detail.value.current.value])
            ELSE IF v.error.some /\ v.error_detail.some
            THEN ItemOk([variant |-> "Error", message |-> v.error.value,
                         detail |-> v.error_detail.value.message])
            ELSE IF v.id.some /\ v.status.some
            THEN ItemOk([variant |-> "Status", id |-> v.id.value,
                         status |-> v.status.value])
            ELSE IF v.status.some
            THEN ItemOk([variant |-> "Info", status |-> v.status.value])
            ELSE ItemOk([variant |-> "Raw", item |-> v])

\* ImageCreateStreamLine::from
ImageLineFrom(item) ==
    IF ~item.ok THEN item
    ELSE LET v == item.value
         IN CASE v.error.some /\ v.error_detail.some ->
                    ItemOk([variant |-> "Error", message |-> v.error.value,
                            detail |-> v.error_detail.value.message])
              [] /\ ~(v.error.some /\ v.error_detail.some)
                 /\ v.id.some /\ v.status.some /\ v.progress.some
                 /\ v.progress_detail.some
                 /\ v.progress_detail.value.total.some
                 /\ v.progress_detail.value.current.some ->
                    ItemOk([variant |-> "Progress", id |-> v.id.value,
                            status |-> v.status.value, info |-> v.progress.value,
                            total |-> v.progress_detail.value.total.value,
                            current |-> v.progress_detail.value.current.value])
              [] OTHER ->
                    IF v.id.some /\ v.status.some
                    THEN ItemOk([variant |-> "Status", id |-> v.id.value,
                                 status |-> v.status.value])
                    ELSE IF v.status.some
                    THEN ItemOk([variant |-> "Info", status |-> v.status.value])
                    ELSE ItemOk([variant |-> "Raw", item |-> v])

\* Mutant of ImageWalk: like the log codec, the scan stops at the first
\* record that does not parse.
RECURSIVE ImageWalkStopsAtError(_, _, _, _)
ImageWalkStopsAtError(data, i, current, result) ==
    IF i >= Len(data) - 1 THEN [current |-> current, result |-> result]
    ELSE IF data[i + 1] = 13 /\ data[i + 2] = 10
    THEN LET item == ParseItem(SubSeq(data, current + 1, i))
         IN IF item.ok
            THEN ImageWalkStopsAtError(data, i + 1, i + 2, Append(result, item))
            ELSE [current |-> i + 2, result |-> Append(result, item)]
    ELSE ImageWalkStopsAtError(data, i + 1, current, result)

\* The `for i in current..length - 1` of ImageCreateStreamHandler::extract:
\* i (0-based) runs once over the buffer; at every CR LF the record
\* data[current..i] is parsed and current moves behind the LF.  (The index
\* after a CR LF holds the LF, so no record has i < current.)
RECURSIVE ImageWalk(_, _, _, _)
ImageWalk(data, i, current, result) ==
    IF i >= Len(data) - 1 THEN [current |-> current, result |-> result]
    ELSE IF data[i + 1] = 13 /\ data[i + 2] = 10
    THEN ImageWalk(data, i + 1, i + 2,
                   Append(result, ParseItem(SubSeq(data, current + 1, i))))
    ELSE ImageWalk(data, i + 1, current, result)

\* Mutant of ImageExtract: the whole view is consumed, an unterminated
\* record at its end included.
ImageExtractConsumesAll(buf) ==
    LET data == BufferView(buf)
        walk == IF Len(data) < 2 THEN [current |-> 0, result |-> << >>]
                ELSE ImageWalk(data, 0, 0, << >>)
    IN [items |-> [k \in 1..Len(walk.result) |-> ImageLineFrom(walk.result[k])],
        buffer |-> IF walk.current > 0 THEN BufferConsume(buf, Len(data)) ELSE buf]

\* ImageCreateStreamHandler::extract: the items and the buffer afterwards
ImageExtract(buf) ==
    LET data == BufferView(buf)
        walk == IF Len(data) < 2 THEN [current |-> 0, result |-> << >>]
                ELSE ImageWalk(data, 0, 0, << >>)
    IN [items |-> [k \in 1..Len(walk.result) |-> ImageLineFrom(walk.result[k])],
        buffer |-> IF walk.current > 0 THEN BufferConsume(buf, walk.current) ELSE buf]

(***************************************************************************)
(*          A CODEC ON ITS OWN: append, then extract, repeatedly           *)
(***************************************************************************)

\* ---- bounds and inputs ----
MaxImageRecords == 2

\* Records of an image pull, each followed by CR LF on the wire.
ImageRecords == {DocEmptyObject.text, DocStatus.text, RecEmpty, RecOpenBrace}

RECURSIVE ImageRecordLists(_)
ImageRecordLists(n) ==
    IF n = 0 THEN {<< >>}
    ELSE LET shorter == ImageRecordLists(n - 1)
         IN shorter \cup {Append(s, r) : s \in {t \in shorter : Len(t) = n - 1},
                                          r \in ImageRecords}

ImageEncode(records) == Flatten([i \in 1..Len(records) |-> records[i] \o <<13, 10>>])

\* Numbers of bytes missing at the end of an image pull: none, the last
\* LF, the last CR LF and more.
ImageCuts == {0, 1, 2}

ImageWires == {SubSeq(ImageEncode(rs), 1, Max(0, Len(ImageEncode(rs)) - c)) :
                  rs \in ImageRecordLists(MaxImageRecords), c \in ImageCuts}

\* Sizes of one append besides "all that is left".
AppendSizes == {1, 2, 7, 9}

\* DockerStreamHandler::extract of the handler in use
Extract(handler, buf) == IF handler = "logs" THEN LogExtract(buf) ELSE ImageExtract(buf)

\* A handler is created and the bytes it will be given are chosen; `items`
\* is everything extract returned so far, `last` the latest call: how many
\* bytes were appended before it, the view it was given, the items it
\* returned and the view it left.
CodecInit ==
    /\ codec \in {[handler |-> h, input |-> w, rest |-> w,
                   buffer |-> NewBuffer, items |-> << >>,
                   last |-> [given |-> 0, view |-> << >>, items |-> << >>,
                             left |-> << >>]] :
                     h \in {"logs"}, w \in Wires}
              \cup
                 {[handler |-> h, input |-> w, rest |-> w,
                   buffer |-> NewBuffer, items |-> << >>,
                   last |-> [given |-> 0, view |-> << >>, items |-> << >>,
                             left |-> << >>]] :
                     h \in {"image"}, w \in ImageWires}
    /\ archive = << >> /\ requested = 0 /\ buffer_size = 0 /\ entries = << >>
    /\ state = StateCompleted /\ out = OutNone /\ emitted = << >>
    /\ frame = NoFrame
    /\ StreamIdle
    /\ ClientIdle

\* buffer.append(bytes) with the next n input bytes, then handler.extract
AppendExtract(n) ==
    LET bytes == SubSeq(codec.rest, 1, n)
        appended == BufferAppend(codec.buffer, bytes)
        ex == Extract(codec.handler, appended)
    IN codec' = [codec EXCEPT
                    !.rest = SubSeq(codec.rest, n + 1, Len(codec.rest)),
                    !.buffer = ex.buffer,
                    !.items = @ \o ex.items,
                    !.last = [given |-> n, view |-> BufferView(appended),
                              items |-> ex.items, left |-> BufferView(ex.buffer)]]

\* The log codec is given more bytes.
LogStep ==
    /\ codec.handler = "logs"
    /\ codec.rest # << >>
    /\ \E n \in (AppendSizes \cup {Len(codec.rest)}) :
          n <= Len(codec.rest) /\ AppendExtract(n)
    /\ UNCHANGED <<tarVars, streamVars, clientVars>>

\* The image-pull codec is given more bytes.
ImageStep ==
    /\ codec.handler = "image"
    /\ codec.rest # << >>
    /\ \E n \in (AppendSizes \cup {Len(codec.rest)}) :
          n <= Len(codec.rest) /\ AppendExtract(n)
    /\ UNCHANGED <<tarVars, streamVars, clientVars>>

CodecNext ==
    \/ LogStep
    \/ ImageStep

CodecSpec == CodecInit /\ [][CodecNext]_vars

(***************************************************************************)
(*        THE DECODER STREAM OF AN IMAGE PULL (DockerStream<H> with        *)
(*                       ImageCreateStreamHandler)                         *)
(***************************************************************************)

\* DockerStream::append with the image-pull handler: the buffer and the
\* prefetch queue afterwards, and what handler.extract returned.
PullAppend(buf, queue, bytes) ==
    IF ~buf.some THEN [buffer |-> NoBuffer, queue |-> queue, returned |-> << >>]
    ELSE LET ex == ImageExtract(BufferAppend(buf, bytes))
             pushed == UntilError(ex.items)
             broken == \E k \in 1..Len(pushed) : ~pushed[k].ok
         IN [buffer |-> IF broken THEN NoBuffer ELSE ex.buffer,
             queue |-> queue \o pushed,
             returned |-> ex.items]

\* DockerStream::from on the response of the image-create endpoint;
\* codec.items is everything the handler's extract returned so far.
PullInit ==
    /\ body \in {[wire |-> w, bad |-> 0, ended |-> FALSE] : w \in ImageWires}
    /\ buffer = NewBuffer
    /\ prefetched = << >>
    /\ connection = "running"
    /\ sout = OutNone
    /\ delivered = << >>
    /\ codec = [handler |-> "image", items |-> << >>]
    /\ archive = << >> /\ requested = 0 /\ buffer_size = 0 /\ entries = << >>
    /\ state = StateCompleted /\ out = OutNone /\ emitted = << >>
    /\ frame = NoFrame
    /\ ClientIdle

\* poll_next, poll_frame yields a data frame: handle_hyper_frame, append
PullFrameData ==
    /\ sout.kind # "panic"
    /\ ~body.ended
    /\ \E n \in 1..Len(body.wire) :
          LET after == PullAppend(buffer, prefetched, SubSeq(body.wire, 1, n))
          IN /\ body' = [body EXCEPT !.wire = SubSeq(body.wire, n + 1, Len(body.wire))]
             /\ buffer' = after.buffer
             /\ codec' = [codec EXCEPT !.items = @ \o after.returned]
             /\ PopFront(after.queue, SOutLooping)
    /\ UNCHANGED <<connection, tarVars, clientVars>>

PullNext ==
    \/ FramePending
    \/ PullFrameData
    \/ FrameBad
    \/ BodyEnd

PullSpec == PullInit /\ [][PullNext]_vars

\* ---- properties of the stream of an image pull ----

\* What is in the queue or was delivered, without the errors of frames and
\* of the driver: the decoded records.
Decoded ==
    SelectSeq(Enqueued, LAMBDA item : item.ok \/ item.error = "DeserializationFailed")

\* C35: no decoded record is lost: every item the image-pull codec
\* returned from an extract call is in the prefetch queue or was
\* delivered, in the order returned, the items that follow an error item
\* of the same batch included.
C35_NothingLost == codec.handler = "image" => Decoded = codec.items

(***************************************************************************)
(*          THE BUFFER ON ITS OWN: any appends and consumes                *)
(***************************************************************************)

\* ---- bounds and inputs ----
\* The number of append and consume calls in one run.
MaxCalls == 4

\* What one append is given: nothing, two bytes, or a block that with a
\* few more bytes outgrows the initial backing vector.
BlockNames == {"none", "pair", "block"}

Block(name) ==
    CASE name = "none" -> << >>
      [] name = "pair" -> <<7, 8>>
      [] OTHER -> [i \in 1..(BufferCapacity - 1) |-> (i % 251) + 1]

\* The counts consume is called with for a buffer of length `len`.
ConsumeCounts(len) == {n \in {0, 1, len - 1, len} : n >= 0 /\ n <= len}

\* A new buffer; `appended` names what each append so far was given,
\* `consumed` is the sum of the counts consumed, `calls` the number of
\* calls made.
BufferInit ==
    /\ codec = [handler |-> "buffer", buffer |-> NewBuffer, appended |-> << >>,
                consumed |-> 0, calls |-> 0]
    /\ archive = << >> /\ requested = 0 /\ buffer_size = 0 /\ entries = << >>
    /\ state = StateCompleted /\ out = OutNone /\ emitted = << >>
    /\ frame = NoFrame
    /\ StreamIdle
    /\ ClientIdle

\* DockerStreamBuffer::append
AppendCall ==
    /\ codec.handler = "buffer"
    /\ codec.calls < MaxCalls
    /\ \E name \in BlockNames :
          codec' = [codec EXCEPT !.buffer = BufferAppend(codec.buffer, Block(name)),
                                 !.appended = Append(@, name),
                                 !.calls = @ + 1]
    /\ UNCHANGED <<tarVars, streamVars, clientVars>>

\* DockerStreamBuffer::consume, with a count within the buffer's length
ConsumeCall ==
    /\ codec.handler = "buffer"
    /\ codec.calls < MaxCalls
    /\ \E count \in ConsumeCounts(codec.buffer.position) :
          codec' = [codec EXCEPT !.buffer = BufferConsume(codec.buffer, count),
                                 !.consumed = @ + count,
                                 !.calls = @ + 1]
    /\ UNCHANGED <<tarVars, streamVars, clientVars>>

BufferNext ==
    \/ AppendCall
    \/ ConsumeCall

BufferSpec == BufferInit /\ [][BufferNext]_vars

(***************************************************************************)
(*        CLASSIFICATION ON ITS OWN: ImageCreateStreamLine::from           *)
(***************************************************************************)

\* A field that is absent or holds the value v.
Maybe(v) == {None, Some(v)}

\* Every ImageCreateStreamItem by the presence of its fields, those of
\* progressDetail included.
DecodedItems ==
    {[status |-> st, id |-> id, error |-> er, error_detail |-> ed,
      progress |-> pr, progress_detail |-> pd] :
        st \in Maybe("s"), id \in Maybe("i"), er \in Maybe("e"),
        ed \in Maybe([message |-> "m"]), pr \in Maybe("p"),
        pd \in {None} \cup {Some([current |-> c, total |-> t]) :
                                c \in Maybe(1), t \in Maybe(2)}}

\* What extract hands to ImageCreateStreamLine::from: a decoded record, or
\* the error of a record that did not decode.
ClassifyInit ==
    /\ codec \in {[handler |-> "lines", record |-> r, line |-> None] :
                     r \in {ItemOk(v) : v \in DecodedItems}
                           \cup {ItemDeserializationFailed(RecOpenBrace)}}
    /\ archive = << >> /\ requested = 0 /\ buffer_size = 0 /\ entries = << >>
    /\ state = StateCompleted /\ out = OutNone /\ emitted = << >>
    /\ frame = NoFrame
    /\ StreamIdle
    /\ ClientIdle

\* result.into_iter().map(ImageCreateStreamLine::from), for one record
Classify ==
    /\ codec.handler = "lines"
    /\ ~codec.line.some
    /\ codec' = [codec EXCEPT !.line = Some(ImageLineFrom(codec.record))]
    /\ UNCHANGED <<tarVars, streamVars, clientVars>>

ClassifyNext == Classify

ClassifySpec == ClassifyInit /\ [][ClassifyNext]_vars

(***************************************************************************)
(*                        PROPERTIES OF THE CODECS                         *)
(***************************************************************************)

\* The offset just behind the k-th frame of a byte sequence laid out as
\* 8-byte headers with a big-endian length in bytes 4..7, each followed by
\* that many payload bytes; Len(v) + 1 when the k-th frame's header is not
\* all there.
RECURSIVE FrameEnd(_, _)
FrameEnd(v, k) ==
    IF k = 0 THEN 0
    ELSE LET at == FrameEnd(v, k - 1)
         IN IF at + 8 > Len(v) THEN Len(v) + 1
            ELSE at + 8 + ((v[at + 5] * 256 + v[at + 6]) * 256 + v[at + 7]) * 256 + v[at + 8]

\* The input bytes appended so far.
Taken == SubSeq(codec.input, 1, Len(codec.input) - Len(codec.rest))

\* C18: the frames for which a call of the log codec's extract returned
\* items lie completely, header and payload, in the view it was given; a
\* text item is its frame's payload; the call consumed exactly those
\* frames' 8 + size bytes, and what followed them is, unchanged and in
\* order, the view afterwards.
C18_LogExtractWholeFrames ==
    codec.handler = "logs" =>
        LET v == codec.last.view
            n == Len(codec.last.items)
        IN /\ FrameEnd(v, n) <= Len(v)
           /\ \A k \in 1..n :
                codec.last.items[k].ok =>
                    codec.last.items[k].value =
                        SubSeq(v, FrameEnd(v, k - 1) + 9, FrameEnd(v, k))
           /\ codec.buffer.position = Len(v) - FrameEnd(v, n)
           /\ codec.last.left = SubSeq(v, FrameEnd(v, n) + 1, Len(v))

\* A call returned a text item and left the bytes of a frame that is not
\* all there yet.
C18_Witness ==
    /\ codec.handler = "logs"
    /\ codec.last.items # << >>
    /\ codec.last.items[1].ok
    /\ codec.last.left # << >>
    /\ Len(codec.last.left) < Len(codec.last.view)

\* C19: whatever the appends were, the items the log codec's extract
\* returned over them, concatenated, are the items one extract returns for
\* the same bytes appended at once.
C19_LogLeftFold ==
    codec.handler = "logs" =>
        codec.items = LogExtract(BufferAppend(NewBuffer, Taken)).items

\* C20: whatever the appends were, the items the image-pull codec's extract
\* returned over them, concatenated, are the items one extract returns for
\* the same bytes appended at once, and the buffer is left with the same
\* view.
C20_ImageLeftFold ==
    codec.handler = "image" =>
        LET once == ImageExtract(BufferAppend(NewBuffer, Taken))
        IN /\ codec.items = once.items
           /\ BufferView(codec.buffer) = BufferView(once.buffer)

\* A malformed record and a well-formed one were decoded, the last append
\* beginning with the LF of a delimiter whose CR had arrived before.
C20_Witness ==
    /\ codec.handler = "image"
    /\ codec.rest = << >>
    /\ Len(codec.items) = 2
    /\ ~codec.items[1].ok /\ codec.items[2].ok
    /\ codec.last.given < Len(codec.last.view)
    /\ codec.last.view[Len(codec.last.view) - codec.last.given] = 13
    /\ codec.last.view[Len(codec.last.view) - codec.last.given + 1] = 10
    /\ codec.last.items # << >>

\* The positions (1-based) of the CR of every CR LF in a byte sequence.
Delimiters(v) == {j \in 1..(Len(v) - 1) : v[j] = 13 /\ v[j + 1] = 10}

\* The position of the CR of the k-th CR LF, and -1 for k = 0: the k-th
\* record lies between the (k-1)-th LF and the k-th CR, the first record
\* beginning at position 1.
Delimiter(v, k) ==
    IF k = 0 THEN -1
    ELSE CHOOSE j \in Delimiters(v) : Cardinality({i \in Delimiters(v) : i < j}) = k - 1

\* The k-th CR LF terminated record of a byte sequence, without its CR LF.
Record(v, k) == SubSeq(v, Delimiter(v, k - 1) + 2, Delimiter(v, k) - 1)

\* C22: a call of the image-pull codec's extract returns one item per
\* CR LF terminated record of the view it was given, in wire order: the line
\* of the decoded document when the record is a document of the schema, and
\* otherwise (an empty record included) DeserializationFailed carrying the
\* record's bytes; it consumes the bytes up to and including the last CR LF
\* and leaves what follows it, a lone CR included, in the buffer.
C22_ImageExtractRecords ==
    codec.handler = "image" =>
        LET v == codec.last.view
            n == Cardinality(Delimiters(v))
            end == Delimiter(v, n) + 1
        IN /\ Len(codec.last.items) = n
           /\ \A k \in 1..n :
                 LET record == Record(v, k)
                     item == codec.last.items[k]
                 IN IF \E d \in Documents : d.text = record
                    THEN /\ item.ok
                         /\ \E d \in Documents :
                               d.text = record /\ item = ImageLineFrom(ItemOk(d.item))
                    ELSE item = ItemDeserializationFailed(record)
           /\ codec.buffer.position = Len(v) - end
           /\ codec.last.left = SubSeq(v, end + 1, Len(v))
           /\ Delimiters(codec.last.left) = {}

\* A call was given an empty record, a whole document and a lone CR: it
\* returned the empty record's error and left the document and the CR.
C22_Witness ==
    /\ codec.handler = "image"
    /\ codec.last.items = <<ItemDeserializationFailed(<< >>)>>
    /\ codec.last.left = DocStatus.text \o <<13>>
    /\ codec.rest = << >>

\* The patterns of ImageCreateStreamLine::from, on a decoded record.
IsError(v) == v.error.some /\ v.error_detail.some
IsProgress(v) ==
    /\ v.id.some /\ v.status.some /\ v.progress.some
    /\ v.progress_detail.some
    /\ v.progress_detail.value.current.some
    /\ v.progress_detail.value.total.some
IsStatus(v) == v.id.some /\ v.status.some

\* A decoded record has been classified.
Classified == codec.handler = "lines" /\ codec.line.some /\ codec.record.ok

\* C23: classification is total and by first match in the order Error,
\* Progress, Status: a decoded record becomes exactly one of the five
\* variants; Error exactly when error and errorDetail are both present,
\* whatever else is; Progress exactly when it is not Error and id, status,
\* progress, progressDetail.current and progressDetail.total are present;
\* Status exactly when it is neither and id and status are present; each
\* variant carries the record's values.
C23_ClassificationOrder ==
    Classified =>
        LET v == codec.record.value
            line == codec.line.value
        IN /\ line.ok
           /\ line.value.variant \in {"Error", "Progress", "Status", "Info", "Raw"}
           /\ line.value.variant = "Error" <=> IsError(v)
           /\ line.value.variant = "Progress" <=> ~IsError(v) /\ IsProgress(v)
           /\ line.value.variant = "Status" <=>
                 ~IsError(v) /\ ~IsProgress(v) /\ IsStatus(v)
           /\ line.value.variant = "Error" =>
                 line.value = [variant |-> "Error", message |-> v.error.value,
                               detail |-> v.error_detail.value.message]
           /\ line.value.variant = "Progress" =>
                 line.value = [variant |-> "Progress", id |-> v.id.value,
                               status |-> v.status.value, info |-> v.progress.value,
                               total |-> v.progress_detail.value.total.value,
                               current |-> v.progress_detail.value.current.value]
           /\ line.value.variant = "Status" =>
                 line.value = [variant |-> "Status", id |-> v.id.value,
                               status |-> v.status.value]

\* A record with every field present was classified Error.
C23_Witness ==
    /\ Classified
    /\ IsError(codec.record.value)
    /\ IsProgress(codec.record.value)
    /\ codec.line.value.ok
    /\ codec.line.value.value.variant = "Error"

\* The fields of a decoded record other than status.
OtherFields(v) == {v.id, v.error, v.error_detail, v.progress, v.progress_detail}

\* C24: a decoded record is classified Info exactly when status is its
\* only field; a record with status and other fields that is none of
\* Error, Progress, Status is classified Raw and carries the record.
C24_InfoOnlyStatus ==
    Classified =>
        LET v == codec.record.value
            line == codec.line.value.value
        IN /\ line.variant = "Info" <=> v.status.some /\ OtherFields(v) = {None}
           /\ (/\ v.status.some /\ OtherFields(v) # {None}
               /\ ~IsError(v) /\ ~IsProgress(v) /\ ~IsStatus(v)) =>
                 line = [variant |-> "Raw", item |-> v]

\* C25: after any appends and consumes (each count within the length at
\* the time) the buffer's length is at most the length of its backing
\* vector, which holds every byte written, and its view is all the bytes
\* appended, in order, without the first `consumed` of them: every consume moved the
\* rest to the front and shortened the buffer by its count.
C25_BufferView ==
    codec.handler = "buffer" =>
        LET all == Flatten([i \in 1..Len(codec.appended) |-> Block(codec.appended[i])])
        IN /\ codec.buffer.position <= codec.buffer.size
           /\ Len(codec.buffer.data) <= codec.buffer.size
           /\ codec.buffer.position = Len(all) - codec.consumed
           /\ BufferView(codec.buffer) = SubSeq(all, codec.consumed + 1, Len(all))

\* The backing vector has grown, bytes were consumed and bytes are left.
C25_Witness ==
    /\ codec.handler = "buffer"
    /\ codec.buffer.size > BufferCapacity
    /\ codec.consumed > 0
    /\ codec.buffer.position > 0
    /\ codec.buffer.position < codec.buffer.size

(***************************************************************************)
(*              CONNECTION, RESPONSE ENVELOPE AND TYPED CLIENT             *)
(***************************************************************************)

Endpoints == {"containers_list", "containers_create", "containers_start",
              "containers_stop", "containers_wait", "containers_remove",
              "containers_logs", "containers_attach", "container_upload",
              "images_create"}

\* HTTP statuses the daemon may answer with.
Statuses == {200, 201, 204, 304, 400, 403, 404, 409, 418, 500}

\* What the client does with a 2xx response (docker/client.rs): parse the
\* body as JSON, drain it, or hand the envelope to a decoder stream.
OnSuccess(endpoint) ==
    CASE endpoint \in {"containers_list", "containers_create", "containers_wait"} -> "json"
      [] endpoint \in {"containers_start", "containers_stop", "containers_remove",
                       "container_upload"} -> "bytes"
      [] OTHER -> "stream"

Unary(endpoint) == OnSuccess(endpoint) # "stream"

\* The match on status.as_u16() of each endpoint: the outcome variant a
\* StatusFailed status is mapped to, "" when the status is not listed.
Variant(endpoint, status) ==
    CASE endpoint = "containers_list" ->
            (CASE status = 400 -> "BadParameter" [] status = 500 -> "ServerError"
               [] OTHER -> "")
      [] endpoint = "containers_create" ->
            (CASE status = 400 -> "BadParameter" [] status = 404 -> "NoSuchImage"
               [] status = 409 -> "Conflict" [] status = 500 -> "ServerError"
               [] OTHER -> "")
      [] endpoint = "containers_start" ->
            (CASE status = 304 -> "AlreadyStarted" [] status = 404 -> "NoSuchContainer"
               [] status = 500 -> "ServerError" [] OTHER -> "")
      [] endpoint = "containers_stop" ->
            (CASE status = 304 -> "AlreadyStopped" [] status = 404 -> "NoSuchContainer"
               [] status = 500 -> "ServerError" [] OTHER -> "")
      [] endpoint = "containers_wait" ->
            (CASE status = 400 -> "BadParameter" [] status = 404 -> "NoSuchContainer"
               [] status = 500 -> "ServerError" [] OTHER -> "")
      [] endpoint = "containers_remove" ->
            (CASE status = 400 -> "BadParameter" [] status = 404 -> "NoSuchContainer"
               [] status = 409 -> "Conflict" [] status = 500 -> "ServerError"
               [] OTHER -> "")
      [] endpoint = "containers_logs" ->
            (CASE status = 404 -> "NoSuchContainer" [] status = 500 -> "ServerError"
               [] OTHER -> "")
      [] endpoint = "containers_attach" ->
            (CASE status = 400 -> "BadParameter" [] status = 404 -> "NoSuchContainer"
               [] status = 500 -> "ServerError" [] OTHER -> "")
      [] endpoint = "container_upload" ->
            (CASE status = 400 -> "BadParameter" [] status = 403 -> "PermissionDenied"
               [] status = 404 -> "NoSuchContainer" [] status = 500 -> "ServerError"
               [] OTHER -> "")
      [] OTHER ->
            (CASE status = 404 -> "NoReadAccess" [] status = 500 -> "ServerError"
               [] OTHER -> "")

\* The variants returned without reading the body: `304 => Ok(...)`.
Bodyless(variant) == variant \in {"AlreadyStarted", "AlreadyStopped"}

\* StatusCode::is_success
IsSuccess(status) == status >= 200 /\ status <= 299

\* The URL an endpoint method formats ({id}, {path}: its arguments).
Url(endpoint) ==
    CASE endpoint = "containers_list" -> "/v1.42/containers/json?all=true"
      [] endpoint = "containers_create" -> "/v1.42/containers/create"
      [] endpoint = "containers_start" -> "/v1.42/containers/{id}/start"
      [] endpoint = "containers_stop" -> "/v1.42/containers/{id}/stop"
      [] endpoint = "containers_wait" -> "/v1.42/containers/{id}/wait"
      [] endpoint = "containers_remove" -> "/v1.42/containers/{id}"
      [] endpoint = "containers_logs" -> "/v1.42/containers/{id}/logs?stdout=true"
      [] endpoint = "containers_attach" ->
            "/v1.42/containers/{id}/attach?logs=true&stream=true&stdout=true&stderr=true"
      [] endpoint = "container_upload" -> "/v1.42/containers/{id}/archive?path={path}"
      [] OTHER -> "/v1.42/images/create?fromImage=python:3.12"

\* The request builder an endpoint method calls.
Builder(endpoint) ==
    CASE endpoint \in {"containers_list", "containers_logs"} -> "get"
      [] endpoint = "containers_remove" -> "delete"
      [] endpoint = "container_upload" -> "put"
      [] OTHER -> "post"

\* Response bodies the daemon may send: one that parses as the JSON the
\* caller expects, and one that does not.
Payloads == {"json", "garbage"}

\* What get / post / put / delete returned: nothing yet, an error made
\* before a response arrived, Ok(envelope), or StatusFailed(url, status,
\* envelope).  The envelope is a DockerResponse: its url, the response with
\* its status and unread body, and the driver handle.
NoReply == [kind |-> "none"]
ReplyErr(error) == [kind |-> error]
ReplyOk(url, status) == [kind |-> "Ok", url |-> url, status |-> status]
ReplyStatusFailed(url, status) == [kind |-> "StatusFailed", url |-> url, status |-> status]

\* A call: where it is (pc), its request URL, what the request builder
\* returned (reply), the status received (0: none) and the body that came
\* with it (payload), what the terminal operation is for (mode: "json",
\* "bytes" or "error") and the variant it will return, who holds the
\* driver's JoinHandle (driver), how often the handle was awaited to
\* completion (joins) and what that returned (joined), whether the body was
\* drained, the result once pc = "done", what the call has done on the
\* socket so far (did: "connect", "handshake", "spawn", "send"), and what
\* from_slice put into the result (carried): the parsed value, or the
\* status and the bytes inside DeserializationFailed.
NoResult == [ok |-> FALSE, what |-> ""]
ResultOk(variant) == [ok |-> TRUE, what |-> variant]
ResultErr(error) == [ok |-> FALSE, what |-> error]
ResultStatusFailed(url, status) ==
    [ok |-> FALSE, what |-> "StatusFailed", url |-> url, status |-> status]

NewCall(endpoint) ==
    [pc |-> "open", endpoint |-> endpoint, url |-> Url(endpoint), reply |-> NoReply,
     status |-> 0, payload |-> "", mode |-> "", variant |-> "",
     driver |-> "none", joins |-> 0, joined |-> "", drained |-> FALSE,
     result |-> NoResult, did |-> << >>, carried |-> None]

Done(c, result) == [c EXCEPT !.pc = "done", !.result = result]

\* An endpoint method is called.
ClientInit ==
    /\ call \in {NewCall(e) : e \in Endpoints}
    /\ archive = << >> /\ requested = 0 /\ buffer_size = 0 /\ entries = << >>
    /\ state = StateCompleted /\ out = OutNone /\ emitted = << >>
    /\ frame = NoFrame
    /\ StreamIdle
    /\ CodecIdle

\* Mutant of Opened: the driver is spawned before the handshake result is
\* looked at.
OpenedSpawnsEarly(c, outcome) ==
    CASE outcome = "connect_failed" ->
            Done([c EXCEPT !.did = <<"connect">>], ResultErr("UnixSocketConnect"))
      [] outcome = "handshake_failed" ->
            Done([c EXCEPT !.did = <<"connect", "handshake", "spawn">>,
                           !.driver = "connection"],
                 ResultErr("HandshakeFailed"))
      [] OTHER ->
            [c EXCEPT !.pc = "execute", !.driver = "connection",
                      !.did = <<"connect", "handshake", "spawn">>]

\* DockerConnection::open and the `?` of the endpoint method on its result:
\* UnixStream::connect, then handshake, then spawn of the driver; an error
\* of the first two is returned at once.
Opened(c, outcome) ==
    CASE outcome = "connect_failed" ->
            Done([c EXCEPT !.did = <<"connect">>], ResultErr("UnixSocketConnect"))
      [] outcome = "handshake_failed" ->
            Done([c EXCEPT !.did = <<"connect", "handshake">>],
                 ResultErr("HandshakeFailed"))
      [] OTHER ->
            [c EXCEPT !.pc = "execute", !.driver = "connection",
                      !.did = <<"connect", "handshake", "spawn">>]

\* DockerConnection::open: connect, handshake, spawn the driver
Open ==
    /\ call.pc = "open"
    /\ \E outcome \in {"connect_failed", "handshake_failed", "ok"} :
          call' = Opened(call, outcome)
    /\ UNCHANGED <<tarVars, streamVars, codecVars>>

\* Mutant of Responded: the envelope is returned whatever the status.
RespondedAlwaysOk(c, status, payload) ==
    [c EXCEPT !.pc = "match", !.status = status, !.payload = payload,
              !.driver = "envelope", !.reply = ReplyOk(c.url, status)]

\* DockerConnection::execute once the response has arrived: the envelope
\* takes the driver handle and is returned, as it is or inside StatusFailed.
Responded(c, status, payload) ==
    [c EXCEPT !.pc = "match", !.status = status, !.payload = payload,
              !.driver = "envelope",
              !.reply = IF IsSuccess(status) THEN ReplyOk(c.url, status)
                        ELSE ReplyStatusFailed(c.url, status)]

\* A request builder and DockerConnection::execute: the calls after which
\* the builder may return.  A request that could not be built is not sent;
\* send_request is called otherwise.
Sent(c) ==
    LET sent == [c EXCEPT !.did = Append(@, "send")]
    IN {[c EXCEPT !.pc = "match", !.driver = "dropped", !.reply = ReplyErr("BuilderFailed")],
        [sent EXCEPT !.pc = "match", !.driver = "dropped", !.reply = ReplyErr("RequestFailed")]}
       \cup {Responded(sent, status, payload) : status \in Statuses, payload \in Payloads}

\* get / post / delete and DockerConnection::execute
Execute ==
    /\ call.pc = "execute"
    /\ Builder(call.endpoint) # "put"
    /\ call' \in Sent(call)
    /\ UNCHANGED <<tarVars, streamVars, codecVars>>

\* put, which container_upload calls with the tar body
Put ==
    /\ call.pc = "execute"
    /\ Builder(call.endpoint) = "put"
    /\ call' \in Sent(call)
    /\ UNCHANGED <<tarVars, streamVars, codecVars>>

\* Mutant of Dispatch: a listed status is not absorbed into its variant.
DispatchUnabsorbed(c, status) ==
    IF IsSuccess(status)
    THEN IF OnSuccess(c.endpoint) = "stream"
         THEN Done([c EXCEPT !.driver = "stream"], ResultOk("Succeeded"))
         ELSE [c EXCEPT !.pc = "collect", !.mode = OnSuccess(c.endpoint),
                        !.variant = "Succeeded"]
    ELSE Done([c EXCEPT !.driver = "error"], ResultStatusFailed(c.reply.url, status))

\* Mutant of Dispatch: a status that is not listed is read as a server error.
DispatchCatchAll(c, status) ==
    IF IsSuccess(status)
    THEN IF OnSuccess(c.endpoint) = "stream"
         THEN Done([c EXCEPT !.driver = "stream"], ResultOk("Succeeded"))
         ELSE [c EXCEPT !.pc = "collect", !.mode = OnSuccess(c.endpoint),
                        !.variant = "Succeeded"]
    ELSE IF Bodyless(Variant(c.endpoint, status))
         THEN Done([c EXCEPT !.driver = "dropped"], ResultOk(Variant(c.endpoint, status)))
         ELSE [c EXCEPT !.pc = "collect", !.mode = "error",
                        !.variant = IF Variant(c.endpoint, status) = "" THEN "ServerError"
                                    ELSE Variant(c.endpoint, status)]

\* The match of an endpoint method on an envelope: Ok(response), or
\* StatusFailed(url, status, response) with its match on status.as_u16().
Dispatch(c, status) ==
    LET variant == Variant(c.endpoint, status)
    IN IF IsSuccess(status)
       THEN IF OnSuccess(c.endpoint) = "stream"
            THEN Done([c EXCEPT !.driver = "stream"], ResultOk("Succeeded"))
            ELSE [c EXCEPT !.pc = "collect", !.mode = OnSuccess(c.endpoint),
                           !.variant = "Succeeded"]
       ELSE IF variant = ""
            THEN Done([c EXCEPT !.driver = "error"],
                      ResultStatusFailed(c.reply.url, status))
            ELSE IF Bodyless(variant)
            THEN Done([c EXCEPT !.driver = "dropped"], ResultOk(variant))
            ELSE [c EXCEPT !.pc = "collect", !.mode = "error", !.variant = variant]

\* The match of an endpoint method on what the request builder returned.
Match ==
    /\ call.pc = "match"
    /\ call' = IF call.reply.kind \in {"Ok", "StatusFailed"}
               THEN Dispatch(call, call.reply.status)
               ELSE Done(call, ResultErr(call.reply.kind))
    /\ UNCHANGED <<tarVars, streamVars, codecVars>>

\* DockerResponse::into_bytes, the body is collected
Collect ==
    /\ call.pc = "collect"
    /\ \/ call' = Done([call EXCEPT !.driver = "dropped"], ResultErr("ResponseFailed"))
       \/ call' = [call EXCEPT !.pc = "join", !.drained = TRUE]
    /\ UNCHANGED <<tarVars, streamVars, codecVars>>

\* Mutant of Joined: a driver failure is ignored when the body was read.
JoinedIgnoringDriver(c, outcome) ==
    LET joined == [c EXCEPT !.driver = "joined", !.joins = c.joins + 1,
                            !.joined = outcome]
    IN IF c.mode = "bytes" THEN Done(joined, ResultOk(c.variant))
       ELSE [joined EXCEPT !.pc = "parse"]

\* DockerResponse::into_bytes after connection.await returned `outcome`
Joined(c, outcome) ==
    LET joined == [c EXCEPT !.driver = "joined", !.joins = c.joins + 1,
                            !.joined = outcome]
    IN CASE outcome = "panicked" -> Done(joined, ResultErr("TokioFailed"))
         [] outcome = "failed" -> Done(joined, ResultErr("ConnectionFailed"))
         [] OTHER -> IF c.mode = "bytes" THEN Done(joined, ResultOk(c.variant))
                     ELSE [joined EXCEPT !.pc = "parse"]

\* DockerResponse::into_bytes, the driver handle is awaited
Join ==
    /\ call.pc = "join"
    /\ \E outcome \in {"panicked", "failed", "ok"} : call' = Joined(call, outcome)
    /\ UNCHANGED <<tarVars, streamVars, codecVars>>

\* serde_json::from_slice on the bytes of the body, for the type the
\* terminal operation asks for: ErrorResponse {message} for into_error,
\* the endpoint's value for into_json; the body named "json" holds the
\* message "m" or the value "v".
FromSlice(mode, payload) ==
    IF payload # "json" THEN None
    ELSE IF mode = "error" THEN Some([message |-> "m"])
    ELSE Some([value |-> "v"])

\* Mutant of Parse: bytes that do not parse as ErrorResponse give the
\* variant with an empty message.
ParseFabricates ==
    /\ call.pc = "parse"
    /\ LET parsed == FromSlice(call.mode, call.payload)
       IN call' =
            IF parsed.some
            THEN Done([call EXCEPT !.carried = parsed], ResultOk(call.variant))
            ELSE IF call.mode = "error"
            THEN Done([call EXCEPT !.carried = Some([message |-> ""])],
                      ResultOk(call.variant))
            ELSE Done([call EXCEPT !.carried = Some([status |-> Some(call.status),
                                                     data |-> call.payload])],
                      ResultErr("DeserializationFailed"))
    /\ UNCHANGED <<tarVars, streamVars, codecVars>>

\* DockerResponse::into_json / into_error: from_slice on the bytes
\* into_bytes returned, DeserializationFailed(Some(status), error, data)
\* when they do not parse
Parse ==
    /\ call.pc = "parse"
    /\ LET parsed == FromSlice(call.mode, call.payload)
       IN call' =
            IF parsed.some
            THEN Done([call EXCEPT !.carried = parsed], ResultOk(call.variant))
            ELSE Done([call EXCEPT !.carried = Some([status |-> Some(call.status),
                                                     data |-> call.payload])],
                      ResultErr("DeserializationFailed"))
    /\ UNCHANGED <<tarVars, streamVars, codecVars>>

ClientNext ==
    \/ Open
    \/ Execute
    \/ Put
    \/ Match
    \/ Collect
    \/ Join
    \/ Parse

ClientSpec == ClientInit /\ [][ClientNext]_vars

(***************************************************************************)
(*                        PROPERTIES OF THE CLIENT                         *)
(***************************************************************************)

\* C4: a unary endpoint call that received a response and returns an
\* outcome variant has joined the driver handle exactly once.
C4_DriverJoinedOnce ==
    (call.pc = "done" /\ Unary(call.endpoint) /\ call.status # 0 /\ call.result.ok) =>
        call.joins = 1 /\ call.driver = "joined"

\* The endpoint table: the statuses listed for an endpoint besides 2xx.
Listed(endpoint) ==
    CASE endpoint = "containers_list" -> {400, 500}
      [] endpoint = "containers_create" -> {400, 404, 409, 500}
      [] endpoint \in {"containers_start", "containers_stop"} -> {304, 404, 500}
      [] endpoint = "containers_wait" -> {400, 404, 500}
      [] endpoint = "containers_remove" -> {400, 404, 409, 500}
      [] endpoint = "containers_logs" -> {404, 500}
      [] endpoint = "containers_attach" -> {400, 404, 500}
      [] endpoint = "container_upload" -> {400, 403, 404, 500}
      [] OTHER -> {404, 500}

\* The endpoint table: the outcome variant a listed status stands for.
Outcome(endpoint, status) ==
    CASE status = 304 -> (IF endpoint = "containers_start" THEN "AlreadyStarted"
                          ELSE "AlreadyStopped")
      [] status = 400 -> "BadParameter"
      [] status = 403 -> "PermissionDenied"
      [] status = 404 -> (CASE endpoint = "containers_create" -> "NoSuchImage"
                            [] endpoint = "images_create" -> "NoReadAccess"
                            [] OTHER -> "NoSuchContainer")
      [] status = 409 -> "Conflict"
      [] OTHER -> "ServerError"

ListedAnswered == call.pc = "done" /\ call.status \in Listed(call.endpoint)

\* C14 as stated: a response with a status listed for the endpoint makes
\* the call return Ok with the status's variant, never an Err, and with 304
\* the body is not read.
C14_ListedStatusOk ==
    ListedAnswered =>
        /\ call.result = ResultOk(Outcome(call.endpoint, call.status))
        /\ call.status = 304 => ~call.drained

\* C14, amended: a response with a status listed for the endpoint never
\* ends in StatusFailed.  With 304 the call returns the variant at once, the
\* body unread.  With any other listed status it returns Ok with the
\* status's variant exactly when the body was drained, the driver join
\* returned Ok and the body parsed as the daemon's error JSON; otherwise it
\* returns the error of the step that failed.
C14_ListedStatusAbsorbed ==
    ListedAnswered =>
        /\ call.result.ok => call.result = ResultOk(Outcome(call.endpoint, call.status))
        /\ call.result.what # "StatusFailed"
        /\ IF call.status = 304
           THEN call.result.ok /\ ~call.drained
           ELSE /\ call.result.ok <=>
                      (call.drained /\ call.joined = "ok" /\ call.payload = "json")
                /\ ~call.drained => call.result = ResultErr("ResponseFailed")
                /\ call.joined = "failed" => call.result = ResultErr("ConnectionFailed")
                /\ call.joined = "panicked" => call.result = ResultErr("TokioFailed")
                /\ (call.joined = "ok" /\ call.payload # "json") =>
                        call.result = ResultErr("DeserializationFailed")

\* containers_remove was answered 409 and returned Conflict.
C14_Witness ==
    /\ call.pc = "done"
    /\ call.endpoint = "containers_remove"
    /\ call.status = 409
    /\ call.result = ResultOk("Conflict")

\* C15: a response whose status is neither 2xx nor listed for the endpoint
\* makes the call return StatusFailed with that status and the request URL,
\* the envelope inside it with its body unread and its driver not joined;
\* no variant is returned.
C15_UnlistedStatusFailed ==
    (call.pc = "done" /\ call.status # 0 /\ ~IsSuccess(call.status)
        /\ call.status \notin Listed(call.endpoint)) =>
        /\ call.result = ResultStatusFailed(Url(call.endpoint), call.status)
        /\ ~call.result.ok
        /\ call.driver = "error"
        /\ ~call.drained
        /\ call.joins = 0

\* containers_list was answered 404, which its table does not list.
C15_Witness ==
    /\ call.pc = "done"
    /\ call.endpoint = "containers_list"
    /\ call.status = 404
    /\ call.result.what = "StatusFailed"

\* C16: execute returns Ok(envelope) exactly when a response arrived and
\* its status is 2xx, and StatusFailed exactly when one arrived with another
\* status; either carries the request URL, the status and the envelope,
\* which now holds the driver handle, its body unread; RequestFailed comes
\* without a response and without an envelope.
C16_ExecuteEnvelope ==
    call.pc = "match" =>
        /\ call.reply.kind = "Ok" <=> (call.status # 0 /\ IsSuccess(call.status))
        /\ call.reply.kind = "StatusFailed" <=> (call.status # 0 /\ ~IsSuccess(call.status))
        /\ call.reply.kind \in {"Ok", "StatusFailed"} =>
              /\ call.reply.url = Url(call.endpoint)
              /\ call.reply.status = call.status
              /\ call.driver = "envelope"
              /\ ~call.drained /\ call.joins = 0
        /\ call.reply.kind \notin {"Ok", "StatusFailed"} =>
              /\ call.reply.kind \in {"RequestFailed", "BuilderFailed"}
              /\ call.status = 0
              /\ call.driver = "dropped"

\* execute returned StatusFailed for a 404.
C16_Witness ==
    /\ call.pc = "match"
    /\ call.reply.kind = "StatusFailed"
    /\ call.reply.status = 404
    /\ Builder(call.endpoint) = "post"

\* C17: the driver is joined only once the body is drained, and never
\* after a failed drain; a terminal operation returns a value only if the
\* body drained, the join returned Ok(Ok) and, for into_json / into_error,
\* the bytes parse; a failed join returns ConnectionFailed / TokioFailed
\* whatever the bytes are.
C17_DriverOverridesPayload ==
    /\ call.joins > 0 => call.drained
    /\ call.joins <= 1
    /\ (call.pc = "done" /\ call.mode # "") =>
          /\ call.result.ok <=>
                /\ call.drained
                /\ call.joined = "ok"
                /\ call.mode \in {"json", "error"} => call.payload = "json"
          /\ ~call.drained => call.joins = 0 /\ call.result = ResultErr("ResponseFailed")
          /\ call.joined = "failed" => call.result = ResultErr("ConnectionFailed")
          /\ call.joined = "panicked" => call.result = ResultErr("TokioFailed")
          /\ (call.joined = "ok" /\ call.mode # "bytes" /\ call.payload # "json") =>
                call.result = ResultErr("DeserializationFailed")

\* into_json on a 2xx response whose body would parse: the driver failed.
C17_Witness ==
    /\ call.pc = "done"
    /\ call.mode = "json"
    /\ call.payload = "json"
    /\ call.drained
    /\ call.joined = "failed"
    /\ call.result = ResultErr("ConnectionFailed")

\* What a call has done on the socket.
Did(what) == \E k \in 1..Len(call.did) : call.did[k] = what

\* C30: the driver is spawned only after connect and handshake succeeded.
\* A call whose connect failed has done nothing but connect and returns
\* UnixSocketConnect; a call whose handshake failed has connected and
\* tried the handshake, has spawned no driver and returns HandshakeFailed;
\* neither holds a driver handle or has sent a request, whatever the
\* endpoint, and no request is sent before the driver is spawned.
C30_OpenErrors ==
    /\ call.pc # "open" =>
          /\ Len(call.did) >= 1 /\ call.did[1] = "connect"
          /\ Len(call.did) >= 2 => call.did[2] = "handshake"
          /\ Len(call.did) >= 3 => call.did[3] = "spawn"
          /\ Len(call.did) >= 4 => call.did = <<"connect", "handshake", "spawn", "send">>
          /\ Len(call.did) = 1 <=>
                (call.pc = "done" /\ call.result = ResultErr("UnixSocketConnect"))
          /\ Len(call.did) = 2 <=>
                (call.pc = "done" /\ call.result = ResultErr("HandshakeFailed"))
          /\ Did("spawn") <=> call.driver # "none"
          /\ ~Did("spawn") => call.reply = NoReply /\ call.status = 0 /\ call.joins = 0
    /\ call.pc = "open" => call.did = << >> /\ call.driver = "none"

\* The upload endpoint has returned HandshakeFailed.
C30_Witness ==
    /\ call.pc = "done"
    /\ call.endpoint = "container_upload"
    /\ call.result = ResultErr("HandshakeFailed")
    /\ call.did = <<"connect", "handshake">>

\* A call answered with a status that stands for a variant with a body.
BodyVariantAnswered ==
    /\ call.pc = "done"
    /\ call.status \in Listed(call.endpoint)
    /\ call.status # 304

\* C36: for a listed status other than 304 the variant is returned only
\* if the error body drained, the driver join returned Ok and the body
\* parsed as {"message": string}, and it carries the message of the body;
\* if the drain fails the call returns ResponseFailed, if the join fails
\* ConnectionFailed or TokioFailed, and if the bytes do not parse
\* DeserializationFailed carrying the response's status and the bytes;
\* no variant carries a message that was not in the body.
C36_VariantNeedsParsedBody ==
    BodyVariantAnswered =>
        /\ call.mode = "error"
        /\ call.result.ok =>
              /\ call.result.what = Outcome(call.endpoint, call.status)
              /\ call.drained /\ call.joins = 1 /\ call.joined = "ok"
              /\ call.payload = "json"
              /\ call.carried = Some([message |-> "m"])
        /\ ~call.result.ok =>
              /\ call.result.what \in {"ResponseFailed", "ConnectionFailed",
                                        "TokioFailed", "DeserializationFailed"}
              /\ call.result.what = "ResponseFailed" <=> ~call.drained
              /\ call.result.what = "ConnectionFailed" <=> call.joined = "failed"
              /\ call.result.what = "TokioFailed" <=> call.joined = "panicked"
              /\ call.result.what = "DeserializationFailed" <=>
                    (call.joined = "ok" /\ call.payload # "json")
              /\ call.carried =
                    IF call.result.what = "DeserializationFailed"
                    THEN Some([status |-> Some(call.status), data |-> call.payload])
                    ELSE None

\* containers_start was answered 404 with a body that is not the daemon's
\* error JSON: the body drained, the driver was joined, and the call
\* returned DeserializationFailed with the status and the bytes.
C36_Witness ==
    /\ BodyVariantAnswered
    /\ call.endpoint = "containers_start"
    /\ call.status = 404
    /\ call.drained /\ call.joined = "ok"
    /\ call.result = ResultErr("DeserializationFailed")
    /\ call.carried = Some([status |-> Some(404), data |-> "garbage"])

====
